---- MODULE Spec2Model ----
(***************************************************************************)
(* universal-sync: the lifecycle of one sync adapter instance.             *)
(*                                                                         *)
(* One adapter object is modelled; `kind` says whether it is a             *)
(* WebDAVAdapter or a RemoteStorageAdapter.  Every action is one           *)
(* synchronous segment of a method or callback: JavaScript runs a segment  *)
(* to its next `await` without interleaving, so the segments are the       *)
(* atomic steps.  Promises in flight are the records in `connects` and     *)
(* `passes`.                                                               *)
(*                                                                         *)
(* Error messages are opaque strings; the Chinese messages of the source   *)
(* are written here in English.                                            *)
(***************************************************************************)
EXTENDS Integers, Sequences, FiniteSets, Bags, TLC

\* ------------------------------------------------------------------ bounds

\* connect calls awaiting their handshake at the same time
MaxConnecting == 1
\* sync passes (triggerSync calls) in flight at the same time
MaxInFlight == 1
\* sync passes in flight at the same time where overlapping passes are studied
MaxOverlap == 2
\* largest docs_read / docs_written counter where calculateProgress is studied
MaxCount == 20
\* effective addEventListener calls in one run
MaxRegistrations == 4
\* interval timers armed at the same time (referenced or leaked)
MaxTimers == 2
\* replication handles / remote database handles alive at the same time
MaxHandles == 2
\* largest docs_read / docs_written counter of a change report
MaxDocs == 1
\* document identifiers in the two stores of a reconciliation pass
MaxIds == 2
\* triggerSync passes run one after the other over the same stores
MaxMergePasses == 2

\* functions SyncController binds (one stands for the nine of a call)
MaxBinds == 5

\* a positive auto-sync interval in milliseconds (the tests use 5000)
SomeInterval == 5000

\* ------------------------------------------------------- optional values

\* an optional number: absent, or a number, or NaN
NoNum == [def |-> FALSE, nan |-> FALSE, v |-> 0]
Num(n) == [def |-> TRUE, nan |-> FALSE, v |-> n]
NaN == [def |-> TRUE, nan |-> TRUE, v |-> 0]

\* an optional error record {message, details}: only the message is kept
NoError == [def |-> FALSE, message |-> ""]
Err(m) == [def |-> TRUE, message |-> m]

\* JavaScript truthiness of an optional number (undefined, 0 and NaN are falsy)
Truthy(n) == n.def /\ ~n.nan /\ n.v # 0

\* `x && x > 0` on an optional number
Positive(n) == Truthy(n) /\ n.v > 0

\* ------------------------------------------------------------ status model

Statuses == {"idle", "connecting", "connected", "syncing", "paused", "completed", "error"}

\* SyncStatus: {status, progress?, error?}
IdleStatus == [status |-> "idle", progress |-> NoNum, error |-> NoError]

\* a Partial<SyncStatus> as the adapters pass it to updateStatus
Patch(s, p, e) == [status |-> s, progress |-> p, error |-> e]

\* a merge that takes the status field of the patch and loses its error
MergeStatus_LosesError(old, patch) ==
  [status |-> patch.status,
   progress |-> IF patch.progress.def THEN patch.progress ELSE old.progress,
   error |-> old.error]

\* { ...this.status, ...status }: a field of the patch that is present
\* overwrites, a field that is absent leaves the old value in place (a patch
\* without a status field has status "undefined" here)
MergeStatus(old, patch) ==
  [status |-> IF patch.status = "undefined" THEN old.status ELSE patch.status,
   progress |-> IF patch.progress.def THEN patch.progress ELSE old.progress,
   error |-> IF patch.error.def THEN patch.error ELSE old.error]

\* one dispatched event: its name, whether the payload carries a status
\* field, the payload's error, and what getSyncStatus() returns while the
\* listeners run
Event(type, carries, err, st) ==
  [type |-> type, carries |-> carries, error |-> err, seen |-> st]

\* an update that ends a pass as completed without setting the progress
CompletedPatch_NoProgress == Patch("completed", NoNum, NoError)

\* the update that ends a successful pass: { status: 'completed', progress: 100 }
CompletedPatch == Patch("completed", Num(100), NoError)

\* an updateStatus that dispatches sync-progress after every update that is
\* not an error
BaseUpdateEvents_Always(old, patch) ==
  IF patch.status = "error"
    THEN << Event("sync-error", TRUE, patch.error, MergeStatus(old, patch)) >>
    ELSE << Event("sync-progress", TRUE, NoError, MergeStatus(old, patch)) >>

\* BaseSyncAdapter.updateStatus dispatches sync-progress / sync-error itself
BaseUpdateEvents(old, patch) ==
  IF patch.status = "syncing"
    THEN << Event("sync-progress", TRUE, NoError, MergeStatus(old, patch)) >>
    ELSE IF patch.status = "error"
      THEN << Event("sync-error", TRUE, patch.error, MergeStatus(old, patch)) >>
      ELSE << >>

\* ------------------------------------------------------------------ config

\* this.config = null
NoConfig == [set |-> FALSE, url |-> "", token |-> "", autoSync |-> FALSE, interval |-> NoNum]

\* WebDAV urls: empty, no scheme, reachable but failing ("error" in it), good
Urls == {"", "not-a-url", "https://example.com/error", "https://example.com/webdav"}

\* /^https?:\/\//i.test(url)
StartsWithHttp(u) == u \in {"https://example.com/error", "https://example.com/webdav"}

\* url.includes('error')
IncludesError(u) == u = "https://example.com/error"

\* RemoteStorage user addresses: `user@domain` or not
Addresses == {"user@example.com", "invalid"}

\* const [user, domain] = userAddress.split('@'); user && domain
WellFormedAddress(a) == a = "user@example.com"

Intervals == {NoNum, Num(0), Num(0 - 1), Num(SomeInterval)}

\* WebDAVConfig: url, autoSync and syncInterval.  The good url is tried with
\* every interval, and with autoSync off; the other urls with a positive
\* interval
GoodUrl == "https://example.com/webdav"
WebDAVConfigs ==
  [set : {TRUE}, url : {GoodUrl}, token : {""}, autoSync : {TRUE}, interval : Intervals]
    \cup [set : {TRUE}, url : {GoodUrl}, token : {""}, autoSync : {FALSE},
          interval : {Num(SomeInterval)}]
    \cup [set : {TRUE}, url : Urls, token : {""}, autoSync : {TRUE},
          interval : {Num(SomeInterval)}]

\* RemoteStorageConfig: userAddress (kept in url), token and
\* autoSyncInterval.  The good address and token are tried with every
\* interval, the others with a positive interval
RemoteStorageConfigs ==
  [set : {TRUE}, url : {"user@example.com"}, token : {"tok"}, autoSync : {FALSE},
   interval : Intervals]
    \cup [set : {TRUE}, url : Addresses, token : {"", "tok"}, autoSync : {FALSE},
          interval : {Num(SomeInterval)}]

ConfigsOf(k) == IF k = "webdav" THEN WebDAVConfigs ELSE RemoteStorageConfigs

\* error messages of the source
MsgUrlEmpty == "WebDAV URL must not be empty"
MsgUrlScheme == "WebDAV URL must start with http:// or https://"
MsgUnreachable == "connection failed: cannot reach the WebDAV server"
MsgNotConfigured == "WebDAV connection not configured"
MsgBadAddress == "invalid user address format"
MsgDiscovery == "cannot discover the RemoteStorage endpoint"
MsgBadToken == "invalid access token"
MsgTestFailed == "connection test failed"
MsgConnectDefault == "connection failed"
MsgConnectFirst == "connect to the RemoteStorage server first"
MsgListFailed == "listing the remote documents failed"
MsgPutFailed == "saving the remote document failed"
MsgSyncDefault == "sync failed"
MsgDenied == "sync denied"
MsgSyncError == "sync error"
\* the message of an Error a collaborator (fetch, the local store) rejects with
MsgCollaborator == "collaborator error"

\* ------------------------------------------------------------------- state

VARIABLES
  kind,          \* which adapter class the instance is
  status,        \* this.status / this.syncStatus
  config,        \* this.config
  localDB,       \* this.localDB # null
  remoteInfo,    \* RemoteStorage: this.remoteInfo # null
  token,         \* RemoteStorage: this.token # null
  remoteDB,      \* WebDAV: this.remoteDB, 0 for null, else the id of a remote handle
  remotes,       \* WebDAV: ids of the remote database handles created and not closed
  syncHandler,   \* WebDAV: this.syncHandler, 0 for null, else a replication handle id
  handles,       \* WebDAV: ids of the replication handles that still deliver callbacks
  autoSyncTimer, \* this.autoSyncTimer, 0 for null, else a timer id
  timers,        \* ids of the interval timers armed (setInterval'd, not cleared)
  connects,      \* connect calls suspended at an await
  passes,        \* the bag of triggerSync calls suspended at an await
  last,          \* history: the segment that ran last
  connectedOk,   \* history: some connect call has resolved true
  sinceStop,     \* history: what ran since stopSync last returned
  stopEvents,    \* history: sync-stopped events the last stopSync call dispatched
  happy,         \* history: how far the run is along the happy path
  completes,     \* history: sync-complete events since the happy path's startSync
  eventListeners, \* this.eventListeners: event name -> the Set of its listeners
  audit,         \* history: the listener call that ran last and what it invoked
  estimate,      \* a change report and the progress calculateProgress returned for it
  merge,         \* RemoteStorage: the two document stores and one triggerSync pass over them
  snapshot,      \* a status object handed out to a caller or listener, and what it shares with this.status
  controller     \* SyncController: its selection, the handlers bound on two adapters, what it displays

vars == << kind, status, config, localDB, remoteInfo, token, remoteDB, remotes,
           syncHandler, handles, autoSyncTimer, timers, connects, passes, last,
           connectedOk, sinceStop, stopEvents, happy, completes, eventListeners,
           audit, estimate, merge, snapshot, controller >>

Kinds == {"webdav", "remotestorage"}

\* a suspended triggerSync call: who started it ("start" for startSync,
\* "timer" for an interval timer) and the await it is suspended at
NoPass == [origin |-> "none", pc |-> "none"]

NewPass(origin, pc) == [origin |-> origin, pc |-> pc]

\* the record of the segment that ran last: the operation, the status
\* before it (kept whole for a startSync call that fails its precondition,
\* and its status field for a stopSync call), the events it dispatched in
\* order, how it ended, the pass it belongs to, and the two history flags
\* as they were before it
Segment(op, events, result, pass) ==
  [op |-> op,
   pre |-> IF op = "startSync" /\ result = "precondition" THEN status
           ELSE IF op = "stopSync" THEN [IdleStatus EXCEPT !.status = status.status]
           ELSE IdleStatus,
   events |-> events, result |-> result, pass |-> pass,
   preConnected |-> connectedOk, afterStop |-> sinceStop]

RemoveAt(s, i) == SubSeq(s, 1, i - 1) \o SubSeq(s, i + 1, Len(s))

\* the smallest id of 1..max that is not in use
NewId(used, max) == CHOOSE i \in 1..max : i \notin used /\ \A j \in 1..(i - 1) : j \in used

\* history: sinceStop is "quiet" when stopSync returned and nothing ran since
\* but the steps of the one pass then in flight, "stopped" when stopSync
\* returned and startSync was not called since, "none" otherwise
Demote(q) == IF q = "quiet" THEN "stopped" ELSE q
AfterPassStep(q, ps) == IF BagCardinality(ps) > 1 THEN Demote(q) ELSE q

CountType(events, type) == Cardinality({i \in DOMAIN events : events[i].type = type})

\* sync-complete events counted while the happy path runs, capped at 2
Counted(events) ==
  IF happy = "running"
    THEN IF completes + CountType(events, "sync-complete") > 2
           THEN 2 ELSE completes + CountType(events, "sync-complete")
    ELSE completes

\* no change report was passed to calculateProgress yet
NoEstimate ==
  [info |-> [read |-> NoNum, written |-> NoNum], progress |-> NoNum, pc |-> "none"]

\* ------------------------------------------------------ listener registry

\* event names: one the WebDAV constructor registers, one it does not
EventNames == {"sync-progress", "test-event"}

\* the names the WebDAV constructor maps to an empty Set
KnownEvents == {"connect-success", "connect-error", "sync-progress", "sync-error",
                "sync-complete", "sync-paused", "sync-active", "sync-denied",
                "sync-stopped"}

\* listener functions; "bad" throws whenever it is called
Listeners == {"l1", "l2", "bad"}
Throws(l) == l = "bad"

\* a Map entry: absent, or a Set kept as the sequence of its elements in
\* insertion order
NoListeners == [has |-> FALSE, set |-> << >>]
SomeListeners(s) == [has |-> TRUE, set |-> s]

\* the Map after construction
InitListeners(k) ==
  [e \in EventNames |->
     IF k = "webdav" /\ e \in KnownEvents THEN SomeListeners(<< >>) ELSE NoListeners]

Range(s) == {s[i] : i \in DOMAIN s}

\* history of the registry: the call that ran last, the listeners the last
\* dispatch invoked in order, how many errors it logged, whether it threw;
\* per event and listener the time its current registration began (0: not
\* registered) and whether it was removed since; the clock of registrations
NoAudit ==
  [op |-> "none", event |-> "", listener |-> "", invoked |-> << >>, logged |-> 0,
   threw |-> FALSE,
   stamp |-> [e \in EventNames |-> [l \in Listeners |-> 0]],
   gone |-> {},
   clock |-> 0]

\* ------------------------------------------------------- document stores

\* the identifiers documents are stored under
DocIds == 1..MaxIds

\* revision markers (_rev): strings of digits, each a sequence of its
\* characters in code-unit order: "1", "10", "2", "9"
Revs == {<< 1 >>, << 1, 0 >>, << 2 >>, << 9 >>}

\* a document's _rev: absent or a string
NoRev == [def |-> FALSE, v |-> << >>]
Rev(m) == [def |-> TRUE, v |-> m]

\* what a store holds under one identifier: nothing, or a document; a local
\* row whose doc is missing counts as a document without _rev
NoDoc == [has |-> FALSE, rev |-> NoRev]
Doc(r) == [has |-> TRUE, rev |-> r]

\* a document store, and a listing of one: identifier -> document
Stores == [DocIds -> {NoDoc} \cup {Doc(r) : r \in {NoRev} \cup {Rev(m) : m \in Revs}}]
NoDocs == [id \in DocIds |-> NoDoc]

\* no triggerSync pass over the stores has begun
NoMerge ==
  [pc |-> "none", i |-> 0, local |-> NoDocs, remote |-> NoDocs,
   remoteDocs |-> NoDocs, localDocs |-> NoDocs,
   putLocal |-> << >>, putRemote |-> << >>, pass |-> 0, prev |-> "none"]

\* nothing was handed out yet.  A status object handed out: the call that
\* ran last, the object's fields as its holder sees them, whether it is the
\* very object this.status refers to, and whether its error record is the
\* record this.status.error refers to
NoSnapshot == [op |-> "none", value |-> IdleStatus, top |-> FALSE, err |-> FALSE]

\* the adapters a SyncController is configured with
Adapters == {"A", "B"}

\* a SyncController before initialize: currentAdapter is null, no handler is
\* bound, the display shows the idle status; `from` and `handled` tell which
\* adapter dispatched last and how many times handleAdapterEvent ran for it
NoController ==
  [op |-> "none", current |-> "none", binds |-> 0, listeners |-> [a \in Adapters |-> {}],
   statuses |-> [a \in Adapters |-> "idle"], shown |-> "idle", from |-> "none",
   handled |-> 0]

\* the adapter of class k after construction
InitOf(k) ==
  /\ kind = k
  /\ status = IdleStatus
  /\ config = NoConfig
  /\ localDB = FALSE
  /\ remoteInfo = FALSE
  /\ token = FALSE
  /\ remoteDB = 0
  /\ remotes = {}
  /\ syncHandler = 0
  /\ handles = {}
  /\ autoSyncTimer = 0
  /\ timers = {}
  /\ connects = << >>
  /\ passes = EmptyBag
  /\ last = [op |-> "none", pre |-> IdleStatus, events |-> << >>, result |-> "none",
             pass |-> NoPass, preConnected |-> FALSE, afterStop |-> "none"]
  /\ connectedOk = FALSE
  /\ sinceStop = "none"
  /\ stopEvents = 0
  /\ happy = "fresh"
  /\ completes = 0
  /\ eventListeners = InitListeners(kind)
  /\ audit = NoAudit
  /\ estimate = NoEstimate
  /\ merge = NoMerge
  /\ snapshot = NoSnapshot
  /\ controller = NoController

Init == \E k \in Kinds : InitOf(k)

\* ----------------------------------------------------------------- connect

\* a check that rejects every config
SyncCheck_RejectsAll(k, cfg) == Err(MsgConnectDefault)

\* what checkConnection / discoverRemoteStorage throw before their first await
SyncCheck(k, cfg) ==
  IF k = "webdav"
    THEN IF cfg.url = "" THEN Err(MsgUrlEmpty)
         ELSE IF ~StartsWithHttp(cfg.url) THEN Err(MsgUrlScheme) ELSE NoError
    ELSE IF ~WellFormedAddress(cfg.url) THEN Err(MsgBadAddress) ELSE NoError

\* connect(config) up to its first await: status connecting, the config is
\* stored, the handshake is started
ConnectBegin(cfg) ==
  /\ Len(connects) < MaxConnecting
  /\ cfg \in ConfigsOf(kind)
  /\ status' = MergeStatus(status, Patch("connecting", NoNum, NoError))
  /\ config' = cfg
  /\ connects' = Append(connects, [stage |-> IF kind = "webdav" THEN "check" ELSE "discover",
                                   thrown |-> SyncCheck(kind, cfg),
                                   token |-> cfg.token])
  /\ passes' = passes
  /\ last' = Segment("connect", << >>, "pending", NoPass)
  /\ happy' = IF happy = "fresh" /\ ~cfg.interval.def THEN "connecting" ELSE "off"
  /\ sinceStop' = Demote(sinceStop)
  /\ UNCHANGED stopEvents
  /\ UNCHANGED << kind, eventListeners, audit, estimate, merge, snapshot, localDB, remoteInfo, token, remoteDB, remotes, syncHandler,
                  handles, autoSyncTimer, timers, connectedOk, completes, controller >>

\* the events of connect's catch block; the RemoteStorage adapter's
\* updateStatus is the base class's, which dispatches sync-error itself
ConnectFailEvents(k, old, msg) ==
  LET patch == Patch("error", NoNum, Err(msg))
      new == MergeStatus(old, patch)
  IN IF k = "webdav"
       THEN << Event("connect-error", TRUE, Err(msg), new) >>
       ELSE BaseUpdateEvents(old, patch) \o << Event("connection-error", FALSE, Err(msg), new) >>

\* connect's catch block: status error with the message, the error event, false
ConnectFail(i, msg) ==
  /\ status' = MergeStatus(status, Patch("error", NoNum, Err(msg)))
  /\ connects' = RemoveAt(connects, i)
  /\ passes' = passes
  /\ last' = Segment("connectEnd", ConnectFailEvents(kind, status, msg), "false", NoPass)
  /\ happy' = "off"
  /\ UNCHANGED << connectedOk >>

ConnectOkEvents(k, new) ==
  IF k = "webdav" THEN << Event("connect-success", TRUE, NoError, new) >>
                  ELSE << Event("connected", FALSE, NoError, new) >>

\* the end of connect's try block: status connected, the success event, true
ConnectOk(i) ==
  /\ status' = MergeStatus(status, Patch("connected", NoNum, NoError))
  /\ connects' = RemoveAt(connects, i)
  /\ passes' = passes
  /\ last' = Segment("connectEnd",
                     ConnectOkEvents(kind, MergeStatus(status, Patch("connected", NoNum, NoError))),
                     "true", NoPass)
  /\ happy' = IF happy = "connecting" THEN "connected" ELSE "off"
  /\ connectedOk' = TRUE

\* WebDAV: checkConnection settles.  The url checks were made when connect
\* was called; the check after the delay reads this.config as it is now
WConnectEnd(i) ==
  /\ kind = "webdav"
  /\ i \in DOMAIN connects
  /\ IF connects[i].thrown.def THEN ConnectFail(i, connects[i].thrown.message)
     ELSE IF IncludesError(config.url) THEN ConnectFail(i, MsgUnreachable)
     ELSE ConnectOk(i)
  /\ sinceStop' = Demote(sinceStop)
  /\ UNCHANGED stopEvents
  /\ UNCHANGED << kind, eventListeners, audit, estimate, merge, snapshot, config, localDB, remoteInfo, token, remoteDB, remotes,
                  syncHandler, handles, autoSyncTimer, timers, completes, controller >>

\* RemoteStorage: discoverRemoteStorage settles (found says what the network
\* answered), then the token of the config passed to this call is checked
RConnectDiscovered(i, found) ==
  /\ kind = "remotestorage"
  /\ i \in DOMAIN connects
  /\ connects[i].stage = "discover"
  /\ IF connects[i].thrown.def
       THEN ConnectFail(i, connects[i].thrown.message) /\ UNCHANGED << remoteInfo, token >>
     ELSE IF ~found
       THEN ConnectFail(i, MsgDiscovery) /\ UNCHANGED << remoteInfo, token >>
     ELSE IF connects[i].token = ""
       THEN ConnectFail(i, MsgBadToken) /\ UNCHANGED << remoteInfo, token >>
     ELSE /\ remoteInfo' = TRUE
          /\ token' = TRUE
          /\ connects' = [connects EXCEPT ![i].stage = "test"]
          /\ passes' = passes
          /\ last' = Segment("connectStep", << >>, "pending", NoPass)
          /\ UNCHANGED << status, happy, connectedOk >>
  /\ sinceStop' = Demote(sinceStop)
  /\ UNCHANGED stopEvents
  /\ UNCHANGED << kind, eventListeners, audit, estimate, merge, snapshot, config, localDB, remoteDB, remotes, syncHandler, handles,
                  autoSyncTimer, timers, completes, controller >>

\* how the PROPFIND that tests the connection can end
TestOutcomes == {"ok", "not-ok", "rejected", "rejected-no-error"}

\* RemoteStorage: the test request settles
RConnectTested(i, outcome) ==
  /\ kind = "remotestorage"
  /\ i \in DOMAIN connects
  /\ connects[i].stage = "test"
  /\ outcome \in TestOutcomes
  /\ CASE outcome = "ok" -> ConnectOk(i)
       [] outcome = "not-ok" -> ConnectFail(i, MsgTestFailed)
       [] outcome = "rejected" -> ConnectFail(i, MsgCollaborator)
       [] OTHER -> ConnectFail(i, MsgConnectDefault)
  /\ sinceStop' = Demote(sinceStop)
  /\ UNCHANGED stopEvents
  /\ UNCHANGED << kind, eventListeners, audit, estimate, merge, snapshot, config, localDB, remoteInfo, token, remoteDB, remotes,
                  syncHandler, handles, autoSyncTimer, timers, completes, controller >>

\* the awaits of triggerSync: the remote listing ("list"), the local
\* enumeration ("enum"), the document writes of the two loops ("write");
\* the one-shot sync of a WebDAV timer pass ("sync")
Passes == [origin : {"start", "timer"}, pc : {"list", "enum", "write", "sync"}]

StartsInFlight(ps) ==
  CopiesIn(NewPass("start", "list"), ps) + CopiesIn(NewPass("start", "enum"), ps)
    + CopiesIn(NewPass("start", "write"), ps)

\* --------------------------------------------------------------- startSync

\* WebDAV setupAutoSync: nothing unless autoSync and a truthy syncInterval;
\* else the timer held is cleared and a new one is armed.  The result is
\* << autoSyncTimer, timers >>
SetupAutoSync(cfg, held, armed) ==
  IF ~cfg.autoSync \/ ~Truthy(cfg.interval)
    THEN << held, armed >>
    ELSE LET t == NewId(armed \ {held}, MaxTimers)
         IN << t, (armed \ {held}) \cup {t} >>

\* WebDAV startSync, which has no await.  Without a stored config the throw
\* lands in the method's own catch block: status error, sync-error, rethrow.
\* Otherwise status syncing/0, a new remote handle and a new live replication
\* handle replace the references held, and the timer is set up
WStartSync ==
  /\ kind = "webdav"
  /\ IF ~config.set
       THEN /\ status' = MergeStatus(status, Patch("error", NoNum, Err(MsgNotConfigured)))
            /\ last' = Segment("startSync",
                  << Event("sync-error", TRUE, Err(MsgNotConfigured),
                           MergeStatus(status, Patch("error", NoNum, Err(MsgNotConfigured)))) >>,
                  "precondition", NoPass)
            /\ UNCHANGED << localDB, remoteDB, remotes, syncHandler, handles,
                            autoSyncTimer, timers >>
       ELSE /\ \E h \in 1..MaxHandles : h \notin handles \cup {syncHandler}
            /\ \E r \in 1..MaxHandles : r \notin remotes
            /\ localDB' = TRUE
            /\ status' = MergeStatus(status, Patch("syncing", Num(0), NoError))
            /\ remoteDB' = NewId(remotes, MaxHandles)
            /\ remotes' = remotes \cup {NewId(remotes, MaxHandles)}
            /\ syncHandler' = NewId(handles \cup {syncHandler}, MaxHandles)
            /\ handles' = handles \cup {NewId(handles \cup {syncHandler}, MaxHandles)}
            /\ autoSyncTimer' = SetupAutoSync(config, autoSyncTimer, timers)[1]
            /\ timers' = SetupAutoSync(config, autoSyncTimer, timers)[2]
            /\ last' = Segment("startSync", << >>, "resolved", NoPass)
  /\ passes' = passes
  /\ sinceStop' = "none"
  /\ UNCHANGED stopEvents
  /\ happy' = IF happy = "connected" THEN "running" ELSE "off"
  /\ completes' = 0
  /\ UNCHANGED << kind, eventListeners, audit, estimate, merge, snapshot, config, remoteInfo, token, connects, connectedOk,
                  controller >>

\* RemoteStorage startSync up to the first await of its pass.  Without
\* config, remoteInfo or token it throws before touching anything.  Otherwise
\* the local store is kept and triggerSync starts: status syncing/0 and the
\* remote listing is requested
RStartSyncUpTo(n) ==
  /\ kind = "remotestorage"
  /\ IF ~config.set \/ ~remoteInfo \/ ~token
       THEN /\ last' = Segment("startSync", << >>, "precondition", NoPass)
            /\ UNCHANGED << status, localDB, passes >>
       ELSE /\ BagCardinality(passes) < n
            /\ Cardinality(timers)
                 + StartsInFlight(passes) < MaxTimers
            /\ localDB' = TRUE
            /\ status' = MergeStatus(status, Patch("syncing", Num(0), NoError))
            /\ passes' = passes (+) SetToBag({NewPass("start", "list")})
            /\ last' = Segment("startSync",
                               BaseUpdateEvents(status, Patch("syncing", Num(0), NoError)),
                               "pending", NoPass)
  /\ sinceStop' = "none"
  /\ UNCHANGED stopEvents
  /\ happy' = IF happy = "connected" THEN "running" ELSE "off"
  /\ completes' = 0
  /\ UNCHANGED << kind, eventListeners, audit, estimate, merge, snapshot, config, remoteInfo, token, remoteDB, remotes, syncHandler,
                  handles, autoSyncTimer, timers, connects, connectedOk, controller >>

RStartSync == RStartSyncUpTo(MaxInFlight)

\* ------------------------------------------------- RemoteStorage sync pass

\* the progress triggerSync reports when the await at pc has resolved
CheckpointAfter(pc) ==
  IF pc = "list" THEN Num(30) ELSE IF pc = "enum" THEN Num(60) ELSE NoNum

\* the remote listing resolved: status syncing/30, the local enumeration is
\* requested
RPassListed(p) ==
  /\ kind = "remotestorage"
  /\ BagIn(p, passes)
  /\ p.pc = "list"
  /\ status' = MergeStatus(status, Patch("syncing", Num(30), NoError))
  /\ passes' = (passes (-) SetToBag({p})) (+) SetToBag({[p EXCEPT !.pc = "enum"]})
  /\ last' = Segment("passStep", BaseUpdateEvents(status, Patch("syncing", Num(30), NoError)),
                     "pending", p)
  /\ sinceStop' = AfterPassStep(sinceStop, passes)
  /\ UNCHANGED << kind, eventListeners, audit, estimate, merge, snapshot, config, localDB, remoteInfo, token, remoteDB, remotes,
                  syncHandler, handles, autoSyncTimer, timers, connects, connectedOk,
                  stopEvents, happy, completes, controller >>

\* the local enumeration resolved and some document has to be written:
\* status syncing/60, the pass waits for the writes
RPassEnumerated(p) ==
  /\ kind = "remotestorage"
  /\ BagIn(p, passes)
  /\ p.pc = "enum"
  /\ status' = MergeStatus(status, Patch("syncing", Num(60), NoError))
  /\ passes' = (passes (-) SetToBag({p})) (+) SetToBag({[p EXCEPT !.pc = "write"]})
  /\ last' = Segment("passStep", BaseUpdateEvents(status, Patch("syncing", Num(60), NoError)),
                     "pending", p)
  /\ sinceStop' = AfterPassStep(sinceStop, passes)
  /\ UNCHANGED << kind, eventListeners, audit, estimate, merge, snapshot, config, localDB, remoteInfo, token, remoteDB, remotes,
                  syncHandler, handles, autoSyncTimer, timers, connects, connectedOk,
                  stopEvents, happy, completes, controller >>

\* a continuation that disarms the timer held when a timer's pass ends
AfterFirstPass_StopsTimer(origin, cfg, held, armed) ==
  IF origin = "start" /\ Positive(cfg.interval)
    THEN << NewId(armed, MaxTimers), armed \cup {NewId(armed, MaxTimers)} >>
    ELSE IF origin = "timer" THEN << 0, armed \ {held} >> ELSE << held, armed >>

\* what follows `await this.triggerSync()` in startSync: a new interval
\* timer when the config held now has a positive autoSyncInterval; the id
\* held before is overwritten, not cleared.  A pass a timer started has no
\* continuation.  The result is << autoSyncTimer, timers >>
AfterFirstPass(origin, cfg, held, armed) ==
  IF origin = "start" /\ Positive(cfg.interval)
    THEN << NewId(armed, MaxTimers), armed \cup {NewId(armed, MaxTimers)} >>
    ELSE << held, armed >>

\* triggerSync ends: the pass leaves `passes`, and startSync continues
RPassEnd(p, events) ==
  /\ passes' = passes (-) SetToBag({p})
  /\ autoSyncTimer' = AfterFirstPass(p.origin, config, autoSyncTimer, timers)[1]
  /\ timers' = AfterFirstPass(p.origin, config, autoSyncTimer, timers)[2]
  /\ last' = Segment("passEnd", events, "resolved", p)
  /\ completes' = Counted(events)
  /\ sinceStop' = AfterPassStep(sinceStop, passes)

\* the pass completes: after the local enumeration when nothing has to be
\* written (status syncing/60 first), or after the writes; status
\* completed/100, then sync-complete
RPassComplete(p) ==
  /\ kind = "remotestorage"
  /\ BagIn(p, passes)
  /\ p.pc \in {"enum", "write"}
  /\ status' = MergeStatus(MergeStatus(status, Patch("syncing", CheckpointAfter(p.pc), NoError)),
                           CompletedPatch)
  /\ RPassEnd(p, (IF p.pc = "enum"
                    THEN BaseUpdateEvents(status, Patch("syncing", Num(60), NoError))
                    ELSE << >>)
                 \o << Event("sync-complete", FALSE, NoError, status') >>)
  /\ UNCHANGED << kind, eventListeners, audit, estimate, merge, snapshot, config, localDB, remoteInfo, token, remoteDB, remotes,
                  syncHandler, handles, connects, connectedOk, stopEvents, happy, controller >>

\* the messages a pass can fail with at pc: a response that is not ok, an
\* Error a collaborator rejected with, or the default for any other value
PassFailures(pc) ==
  (IF pc = "list" THEN {MsgListFailed} ELSE IF pc = "write" THEN {MsgPutFailed} ELSE {})
    \cup {MsgCollaborator, MsgSyncDefault}

\* an await of triggerSync rejects: its catch block sets status error
\* (updateStatus dispatches sync-error) and dispatches sync-error again;
\* triggerSync resolves all the same
RPassFail(p, msg) ==
  /\ kind = "remotestorage"
  /\ BagIn(p, passes)
  /\ msg \in PassFailures(p.pc)
  /\ status' = MergeStatus(status, Patch("error", NoNum, Err(msg)))
  /\ RPassEnd(p, BaseUpdateEvents(status, Patch("error", NoNum, Err(msg)))
                 \o << Event("sync-error", FALSE, Err(msg), status') >>)
  /\ happy' = "off"
  /\ UNCHANGED << kind, eventListeners, audit, estimate, merge, snapshot, config, localDB, remoteInfo, token, remoteDB, remotes,
                  syncHandler, handles, connects, connectedOk, stopEvents, controller >>

\* an interval timer of the RemoteStorage adapter fires: triggerSync starts
\* a pass whatever the status is
RTickUpTo(t, n) ==
  /\ kind = "remotestorage"
  /\ t \in timers
  /\ BagCardinality(passes) < n
  /\ status' = MergeStatus(status, Patch("syncing", Num(0), NoError))
  /\ passes' = passes (+) SetToBag({NewPass("timer", "list")})
  /\ last' = Segment("tick", BaseUpdateEvents(status, Patch("syncing", Num(0), NoError)),
                     "started", NoPass)
  /\ happy' = "off"
  /\ sinceStop' = Demote(sinceStop)
  /\ UNCHANGED stopEvents
  /\ UNCHANGED << kind, eventListeners, audit, estimate, merge, snapshot, config, localDB, remoteInfo, token, remoteDB, remotes,
                  syncHandler, handles, autoSyncTimer, timers, connects, connectedOk, completes,
                  controller >>

RTick(t) == RTickUpTo(t, MaxInFlight)

\* -------------------------------------------------- WebDAV timer and pass

\* a timer callback that calls triggerSync without looking at the status
WTickUpTo_NoGuard(t, n) ==
  /\ kind = "webdav"
  /\ t \in timers
  /\ IF localDB /\ remoteDB # 0
       THEN /\ BagCardinality(passes) < n
            /\ status' = MergeStatus(status, Patch("syncing", Num(0), NoError))
            /\ passes' = passes (+) SetToBag({NewPass("timer", "sync")})
            /\ last' = Segment("tick", << >>, "started", NoPass)
       ELSE /\ passes' = passes
            /\ last' = Segment("tick", << >>, "skipped", NoPass)
            /\ UNCHANGED status
  /\ happy' = "off"
  /\ sinceStop' = Demote(sinceStop)
  /\ UNCHANGED stopEvents
  /\ UNCHANGED << kind, eventListeners, audit, estimate, merge, snapshot, config, localDB, remoteInfo, token, remoteDB, remotes,
                  syncHandler, handles, autoSyncTimer, timers, connects, connectedOk, completes,
                  controller >>

\* an interval timer of the WebDAV adapter fires: nothing while the status
\* is syncing; else triggerSync, which returns at once without both stores,
\* and otherwise sets status syncing/0 and awaits a one-shot sync
WTickUpTo(t, n) ==
  /\ kind = "webdav"
  /\ t \in timers
  /\ IF status.status # "syncing" /\ localDB /\ remoteDB # 0
       THEN /\ BagCardinality(passes) < n
            /\ status' = MergeStatus(status, Patch("syncing", Num(0), NoError))
            /\ passes' = passes (+) SetToBag({NewPass("timer", "sync")})
            /\ last' = Segment("tick", << >>, "started", NoPass)
       ELSE /\ passes' = passes
            /\ last' = Segment("tick", << >>, "skipped", NoPass)
            /\ UNCHANGED status
  /\ happy' = "off"
  /\ sinceStop' = Demote(sinceStop)
  /\ UNCHANGED stopEvents
  /\ UNCHANGED << kind, eventListeners, audit, estimate, merge, snapshot, config, localDB, remoteInfo, token, remoteDB, remotes,
                  syncHandler, handles, autoSyncTimer, timers, connects, connectedOk, completes,
                  controller >>

WTick(t) == WTickUpTo(t, MaxInFlight)

\* the one-shot sync of a WebDAV timer pass resolves: completed/100, sync-complete
WPassComplete(p) ==
  /\ kind = "webdav"
  /\ BagIn(p, passes)
  /\ status' = MergeStatus(status, CompletedPatch)
  /\ passes' = passes (-) SetToBag({p})
  /\ last' = Segment("passEnd",
                     << Event("sync-complete", TRUE, NoError,
                              MergeStatus(status, CompletedPatch)) >>,
                     "resolved", p)
  /\ sinceStop' = AfterPassStep(sinceStop, passes)
  /\ UNCHANGED stopEvents
  /\ UNCHANGED << kind, eventListeners, audit, estimate, merge, snapshot, config, localDB, remoteInfo, token, remoteDB, remotes,
                  syncHandler, handles, autoSyncTimer, timers, connects, connectedOk, happy, completes,
                  controller >>

\* the one-shot sync rejects: status error with the Error's message or the
\* default, sync-error
WPassFail(p, msg) ==
  /\ kind = "webdav"
  /\ BagIn(p, passes)
  /\ msg \in {MsgCollaborator, MsgSyncDefault}
  /\ status' = MergeStatus(status, Patch("error", NoNum, Err(msg)))
  /\ passes' = passes (-) SetToBag({p})
  /\ last' = Segment("passEnd",
                     << Event("sync-error", TRUE, Err(msg),
                              MergeStatus(status, Patch("error", NoNum, Err(msg)))) >>,
                     "resolved", p)
  /\ sinceStop' = AfterPassStep(sinceStop, passes)
  /\ UNCHANGED stopEvents
  /\ UNCHANGED << kind, eventListeners, audit, estimate, merge, snapshot, config, localDB, remoteInfo, token, remoteDB, remotes,
                  syncHandler, handles, autoSyncTimer, timers, connects, connectedOk, happy, completes,
                  controller >>

\* ------------------------------------------- WebDAV replication callbacks

\* a division that drops the fraction
RoundDiv_Floor(num, den) == num \div den

\* Math.round(x) for x = num / den >= 0: the nearest integer, halves up
RoundDiv(num, den) == (2 * num + den) \div (2 * den)

Min(a, b) == IF a < b THEN a ELSE b

\* a change report: info.docs_read and info.docs_written, each may be absent
Reports == [read : {NoNum} \cup {Num(n) : n \in 0..MaxDocs},
            written : {NoNum} \cup {Num(n) : n \in 0..MaxDocs}]

\* calculateProgress: with both counters numbers,
\* min(round(written / (read + written) * 100), 99), which is NaN for 0/0;
\* else the fallback 50
calculateProgress(info) ==
  IF info.read.def /\ info.written.def
    THEN IF info.read.v + info.written.v = 0
           THEN NaN
           ELSE Num(Min(RoundDiv(info.written.v * 100, info.read.v + info.written.v), 99))
    ELSE Num(50)

\* a callback of a live replication handle ran: the status it set and the
\* event it triggered; a handle that completed or failed delivers no more
HandleCallback(h, patch, type, err, ends, ok) ==
  /\ kind = "webdav"
  /\ h \in handles
  /\ status' = MergeStatus(status, patch)
  /\ handles' = IF ends THEN handles \ {h} ELSE handles
  /\ passes' = passes
  /\ last' = Segment("callback", << Event(type, TRUE, err, MergeStatus(status, patch)) >>,
                     "returned", NoPass)
  /\ happy' = IF ok THEN happy ELSE "off"
  /\ completes' = Counted(<< Event(type, TRUE, err, MergeStatus(status, patch)) >>)
  /\ sinceStop' = Demote(sinceStop)
  /\ UNCHANGED stopEvents
  /\ UNCHANGED << kind, eventListeners, audit, estimate, merge, snapshot, config, localDB, remoteInfo, token, remoteDB, remotes,
                  syncHandler, autoSyncTimer, timers, connects, connectedOk, controller >>

\* on('change'): status syncing with the calculated progress, sync-progress
HandleChange(h, info) ==
  /\ info \in Reports
  /\ HandleCallback(h, Patch("syncing", calculateProgress(info), NoError),
                    "sync-progress", NoError, FALSE, TRUE)

\* on('paused'): status paused, sync-paused
HandlePaused(h) ==
  HandleCallback(h, Patch("paused", NoNum, NoError), "sync-paused", NoError, FALSE, TRUE)

\* on('active'): status syncing, sync-active
HandleActive(h) ==
  HandleCallback(h, Patch("syncing", NoNum, NoError), "sync-active", NoError, FALSE, TRUE)

\* on('denied'): status error, sync-denied
HandleDenied(h) ==
  HandleCallback(h, Patch("error", NoNum, Err(MsgDenied)), "sync-denied", Err(MsgDenied),
                 FALSE, FALSE)

\* on('complete'): status completed/100, sync-complete
HandleComplete(h) ==
  HandleCallback(h, CompletedPatch, "sync-complete", NoError,
                 TRUE, TRUE)

\* on('error'): status error, sync-error
HandleError(h) ==
  HandleCallback(h, Patch("error", NoNum, Err(MsgSyncError)), "sync-error", Err(MsgSyncError),
                 TRUE, FALSE)

\* ----------------------------------------------------------------- stopSync

\* a stop that clears the interval and keeps its id in the field
ClearTimer_KeepsId(held, armed) == << held, armed \ {held} >>

\* stopSync's first block: when a timer id is held, clearInterval on it and
\* the reference set to null.  The result is << autoSyncTimer, timers >>
ClearTimer(held, armed) == IF held # 0 THEN << 0, armed \ {held} >> ELSE << held, armed >>

\* WebDAV stopSync: the timer held is cleared, the replication handle held
\* is cancelled, the remote handle held is closed, status idle with progress
\* 0, sync-stopped
WStopSync ==
  /\ kind = "webdav"
  /\ autoSyncTimer' = ClearTimer(autoSyncTimer, timers)[1]
  /\ timers' = ClearTimer(autoSyncTimer, timers)[2]
  /\ handles' = handles \ {syncHandler}
  /\ syncHandler' = 0
  /\ remotes' = remotes \ {remoteDB}
  /\ remoteDB' = 0
  /\ status' = MergeStatus(status, Patch("idle", Num(0), NoError))
  /\ passes' = passes
  /\ last' = Segment("stopSync",
                     << Event("sync-stopped", TRUE, NoError,
                              MergeStatus(status, Patch("idle", Num(0), NoError))) >>,
                     "returned", NoPass)
  /\ sinceStop' = "quiet"
  /\ stopEvents' = CountType(last'.events, "sync-stopped")
  /\ happy' = "off"
  /\ UNCHANGED << kind, eventListeners, audit, estimate, merge, snapshot, config, localDB, remoteInfo, token, connects, connectedOk, completes,
                  controller >>

\* RemoteStorage stopSync: the timer held is cleared, status idle, sync-stopped
RStopSync ==
  /\ kind = "remotestorage"
  /\ autoSyncTimer' = ClearTimer(autoSyncTimer, timers)[1]
  /\ timers' = ClearTimer(autoSyncTimer, timers)[2]
  /\ status' = MergeStatus(status, Patch("idle", NoNum, NoError))
  /\ passes' = passes
  /\ last' = Segment("stopSync",
                     << Event("sync-stopped", FALSE, NoError,
                              MergeStatus(status, Patch("idle", NoNum, NoError))) >>,
                     "returned", NoPass)
  /\ sinceStop' = "quiet"
  /\ stopEvents' = CountType(last'.events, "sync-stopped")
  /\ happy' = "off"
  /\ UNCHANGED << kind, eventListeners, audit, estimate, merge, snapshot, config, localDB, remoteInfo, token, remoteDB, remotes,
                  syncHandler, handles, connects, connectedOk, completes, controller >>

\* ------------------------------------------------------- calculateProgress

\* everything of the adapter but its listener Map
adapterVars == << kind, status, config, localDB, remoteInfo, token, remoteDB, remotes,
                  syncHandler, handles, autoSyncTimer, timers, connects, passes, last,
                  connectedOk, sinceStop, stopEvents, happy, completes >>

\* the change report the mocked replication of the WebDAV tests delivers
TestReport == [read |-> Num(100), written |-> Num(50)]

\* the change reports calculateProgress is applied to
CountedReports ==
  [read : {NoNum} \cup {Num(n) : n \in 0..MaxCount},
   written : {NoNum} \cup {Num(n) : n \in 0..MaxCount}] \cup {TestReport}

\* a WebDAV adapter about to be handed a change report
InitProgress ==
  /\ Init
  /\ kind = "webdav"

\* a change report arrives
ReportArrives(info) ==
  /\ estimate.pc = "none"
  /\ info \in CountedReports
  /\ estimate' = [estimate EXCEPT !.info = info, !.pc = "given"]
  /\ UNCHANGED << adapterVars, eventListeners, audit, merge, snapshot, controller >>

\* calculateProgress(info), which reads and writes no field of the adapter
ApplyProgress ==
  /\ estimate.pc = "given"
  /\ estimate' = [estimate EXCEPT !.progress = calculateProgress(estimate.info),
                                  !.pc = "done"]
  /\ UNCHANGED << adapterVars, eventListeners, audit, merge, snapshot, controller >>

NextProgress ==
  \/ \E info \in CountedReports : ReportArrives(info)
  \/ ApplyProgress

SpecProgress == InitProgress /\ [][NextProgress]_vars

\* ------------------------------------------------------- listener methods

\* an add that puts the new listener before the others
SetAdd_Front(s, l) == IF l \in Range(s) THEN s ELSE << l >> \o s

\* Set.add: an element already in the Set stays where it is
SetAdd(s, l) == IF l \in Range(s) THEN s ELSE Append(s, l)

\* a delete that drops the listener and every listener added after it
SetDelete_DropsTail(s, l) ==
  IF l \in Range(s) THEN SubSeq(s, 1, (CHOOSE i \in DOMAIN s : s[i] = l) - 1) ELSE s

\* Set.delete
SetDelete(s, l) == SelectSeq(s, LAMBDA x : x # l)

\* addEventListener(event, listener): the Set of the event is created when
\* the Map has none, and the listener is added to it
AddEventListener(e, l) ==
  /\ audit.clock < MaxRegistrations
  /\ eventListeners' = [eventListeners EXCEPT ![e] = SomeListeners(SetAdd(@.set, l))]
  /\ audit' = [audit EXCEPT
                 !.op = "add", !.event = e, !.listener = l,
                 !.invoked = << >>, !.logged = 0, !.threw = FALSE,
                 !.stamp = IF audit.stamp[e][l] = 0
                             THEN [audit.stamp EXCEPT ![e][l] = audit.clock + 1]
                             ELSE audit.stamp,
                 !.gone = audit.gone \ {<< e, l >>},
                 !.clock = IF audit.stamp[e][l] = 0 THEN audit.clock + 1 ELSE audit.clock]
  /\ UNCHANGED adapterVars
  /\ UNCHANGED << estimate, merge, snapshot, controller >>

\* removeEventListener(event, listener): the listener is deleted from the
\* Set of the event when the Map has one; BaseSyncAdapter also deletes the
\* Map entry of a Set that became empty
RemoveEventListener(e, l) ==
  /\ eventListeners' =
       IF ~eventListeners[e].has THEN eventListeners
       ELSE IF kind = "remotestorage" /\ SetDelete(eventListeners[e].set, l) = << >>
         THEN [eventListeners EXCEPT ![e] = NoListeners]
         ELSE [eventListeners EXCEPT ![e] = SomeListeners(SetDelete(@.set, l))]
  /\ audit' = [audit EXCEPT
                 !.op = "remove", !.event = e, !.listener = l,
                 !.invoked = << >>, !.logged = 0, !.threw = FALSE,
                 !.stamp = [audit.stamp EXCEPT ![e][l] = 0],
                 !.gone = IF audit.stamp[e][l] # 0 THEN audit.gone \cup {<< e, l >>}
                                                   ELSE audit.gone]
  /\ UNCHANGED adapterVars
  /\ UNCHANGED << estimate, merge, snapshot, controller >>

\* a forEach whose callback has no try/catch: the first listener that
\* throws ends the loop and the error leaves the dispatch
Deliver_NoCatch(s) ==
  LET stops == {i \in DOMAIN s : Throws(s[i])}
      n == IF stops = {} THEN Len(s) ELSE CHOOSE i \in stops : \A j \in stops : i <= j
  IN [invoked |-> SubSeq(s, 1, n), logged |-> 0, threw |-> stops # {}]

\* listeners.forEach(listener => { try { listener(eventData) } catch
\* { console.error(...) } }): every listener of the Set is called in
\* insertion order, an error a listener throws is logged and swallowed
Deliver(s) ==
  [invoked |-> s,
   logged |-> Cardinality({i \in DOMAIN s : Throws(s[i])}),
   threw |-> FALSE]

\* dispatchEvent(event, data) / triggerEvent(event, data): the Set of the
\* event, when the Map has one, is delivered to; nothing else is touched
DispatchEvent(e) ==
  /\ audit' = [audit EXCEPT
                 !.op = "dispatch", !.event = e, !.listener = "",
                 !.invoked = IF eventListeners[e].has
                               THEN Deliver(eventListeners[e].set).invoked ELSE << >>,
                 !.logged = IF eventListeners[e].has
                              THEN Deliver(eventListeners[e].set).logged ELSE 0,
                 !.threw = eventListeners[e].has /\ Deliver(eventListeners[e].set).threw]
  /\ UNCHANGED eventListeners
  /\ UNCHANGED adapterVars
  /\ UNCHANGED << estimate, merge, snapshot, controller >>

NextListeners ==
  \/ \E e \in EventNames, l \in Listeners : AddEventListener(e, l)
  \/ \E e \in EventNames, l \in Listeners : RemoveEventListener(e, l)
  \/ \E e \in EventNames : DispatchEvent(e)

SpecListeners == Init /\ [][NextListeners]_vars

\* ------------------------------------------------------------ merge engine

\* a > b on two strings: the first position where they differ decides, and a
\* string is greater than each of its proper prefixes
RECURSIVE StringGreater(_, _)
StringGreater(a, b) ==
  IF a = << >> THEN FALSE
  ELSE IF b = << >> THEN TRUE
  ELSE IF Head(a) # Head(b) THEN Head(a) > Head(b)
  ELSE StringGreater(Tail(a), Tail(b))

\* a comparison of markers by their value as decimal numbers (no leading
\* zeros): the longer numeral is the greater, equal lengths compare by digits
Greater_Numeric(x, y) ==
  /\ x.def
  /\ y.def
  /\ \/ Len(x.v) > Len(y.v)
     \/ Len(x.v) = Len(y.v) /\ StringGreater(x.v, y.v)

\* a comparison of markers that also holds for equal ones
Greater_OrEqual(x, y) == x.def /\ y.def /\ ~StringGreater(y.v, x.v)

\* x._rev > y._rev: when a marker is undefined the operands are compared as
\* numbers, undefined is NaN and the comparison is false
Greater(x, y) == x.def /\ y.def /\ StringGreater(x.v, y.v)

\* a remote-to-local condition that requires a local marker to compare with
PullCondition_NeedsMarker(remoteDocs, localDocs, id) ==
  /\ remoteDocs[id].has
  /\ \/ ~localDocs[id].has
     \/ Greater(remoteDocs[id].rev, localDocs[id].rev)

\* the remote-to-local loop puts remoteDoc into the local store:
\* !localDoc || !localDoc.doc || !localDoc.doc._rev || remoteDoc._rev > localDoc.doc._rev
PullCondition(remoteDocs, localDocs, id) ==
  /\ remoteDocs[id].has
  /\ \/ ~localDocs[id].has
     \/ ~localDocs[id].rev.def
     \/ Greater(remoteDocs[id].rev, localDocs[id].rev)

\* a local-to-remote condition without the `continue` for rows that lack a marker
PushCondition_NoMarkerCheck(remoteDocs, localDocs, id) ==
  /\ localDocs[id].has
  /\ \/ ~remoteDocs[id].has
     \/ Greater(localDocs[id].rev, remoteDocs[id].rev)

\* the local-to-remote loop pushes localRow.doc: rows without doc or _rev are
\* skipped, then !remoteDoc || localRow.doc._rev > remoteDoc._rev
PushCondition(remoteDocs, localDocs, id) ==
  /\ localDocs[id].has
  /\ localDocs[id].rev.def
  /\ \/ ~remoteDocs[id].has
     \/ Greater(localDocs[id].rev, remoteDocs[id].rev)

\* where triggerSync suspends next when the local-to-remote loop goes on at
\* position i: at the next putRemoteDocument, or not at all (completed)
PushFrom(remoteDocs, localDocs, i) ==
  LET c == {j \in i..MaxIds : PushCondition(remoteDocs, localDocs, j)}
  IN IF c = {} THEN [pc |-> "done", i |-> 0] ELSE [pc |-> "push", i |-> CHOOSE j \in c : \A k \in c : j <= k]

\* where triggerSync suspends next when the remote-to-local loop goes on at
\* position i: at the next localDB.put, else in the local-to-remote loop
PullFrom(remoteDocs, localDocs, i) ==
  LET c == {j \in i..MaxIds : PullCondition(remoteDocs, localDocs, j)}
  IN IF c = {} THEN PushFrom(remoteDocs, localDocs, 1)
     ELSE [pc |-> "pull", i |-> CHOOSE j \in c : \A k \in c : j <= k]

\* the pass runs on to its next await; the put it calls there is recorded
Proceed(m, next) ==
  [m EXCEPT !.pc = next.pc, !.i = next.i,
            !.putLocal = IF next.pc = "pull" THEN Append(@, next.i) ELSE @,
            !.putRemote = IF next.pc = "push" THEN Append(@, next.i) ELSE @]

\* what triggerSync does to the status around the await that has settled
\* ("begin" for its start): updateStatus syncing/0, /30, /60 after a step that
\* went well; completed/100 and sync-complete when the loops are through;
\* from the catch block status error (updateStatus dispatches sync-error) and
\* sync-error again.  triggerSync resolves either way
MergeReport(settled, ok, next) ==
  LET point == IF settled = "begin" THEN Num(0) ELSE CheckpointAfter(settled)
      reached == IF ok /\ point.def
                   THEN MergeStatus(status, Patch("syncing", point, NoError))
                   ELSE status
      progress == IF ok /\ point.def
                    THEN BaseUpdateEvents(status, Patch("syncing", point, NoError))
                    ELSE << >>
      final == IF ok THEN CompletedPatch ELSE Patch("error", NoNum, Err(MsgCollaborator))
      ends == ~ok \/ next = "done"
      p == NewPass("start", IF settled \in {"pull", "push"} THEN "write" ELSE settled)
  IN /\ status' = IF ends THEN MergeStatus(reached, final) ELSE reached
     /\ last' = IF settled = "begin" THEN Segment("startSync", progress, "pending", NoPass)
                ELSE IF ends
                  THEN Segment("passEnd",
                               progress \o BaseUpdateEvents(reached, final)
                                 \o << Event(IF ok THEN "sync-complete" ELSE "sync-error",
                                             FALSE, final.error, status') >>,
                               "resolved", p)
                  ELSE Segment("passStep", progress, "pending", p)
     /\ UNCHANGED << kind, config, localDB, remoteInfo, token, remoteDB, remotes, syncHandler,
                     handles, autoSyncTimer, timers, connects, passes, connectedOk,
                     sinceStop, stopEvents, happy, completes, eventListeners, audit,
                     estimate, snapshot, controller >>

\* a RemoteStorage adapter whose pass is about to run over two stores
InitMerge ==
  /\ Init
  /\ kind = "remotestorage"

\* triggerSync begins: the stores hold l and r, listRemoteDocuments is awaited
MergeBegin(l, r) ==
  /\ merge.pc = "none"
  /\ l \in Stores
  /\ r \in Stores
  /\ merge' = [NoMerge EXCEPT !.pc = "list", !.local = l, !.remote = r, !.pass = 1]
  /\ MergeReport("begin", TRUE, "list")

\* listRemoteDocuments settled: the listing of the remote store, or a throw
ListRemoteDocuments(ok) ==
  /\ merge.pc = "list"
  /\ merge' = IF ok THEN [merge EXCEPT !.pc = "enum", !.remoteDocs = merge.remote]
                    ELSE [merge EXCEPT !.pc = "error", !.i = 0]
  /\ MergeReport("list", ok, "enum")

\* localDB.allDocs settled: the rows of the local store, and the loops run up
\* to the first put; or a throw
AllDocs(ok) ==
  /\ merge.pc = "enum"
  /\ merge' = IF ok
                THEN Proceed([merge EXCEPT !.localDocs = merge.local],
                             PullFrom(merge.remoteDocs, merge.local, 1))
                ELSE [merge EXCEPT !.pc = "error", !.i = 0]
  /\ MergeReport("enum", ok, merge'.pc)

\* localDB.put(remoteDoc) settled: the local store holds the remote document
\* and the loops run on; or a throw
LocalPut(ok) ==
  /\ merge.pc = "pull"
  /\ merge' = IF ok
                THEN Proceed([merge EXCEPT !.local[merge.i] = merge.remoteDocs[merge.i]],
                             PullFrom(merge.remoteDocs, merge.localDocs, merge.i + 1))
                ELSE [merge EXCEPT !.pc = "error", !.i = 0]
  /\ MergeReport("pull", ok, merge'.pc)

\* a putRemoteDocument whose failure undoes the local puts of the pass
PutRemoteDocument_RollsBack(ok) ==
  /\ merge.pc = "push"
  /\ merge' = IF ok
                THEN Proceed([merge EXCEPT !.remote[merge.i] = merge.localDocs[merge.i]],
                             PushFrom(merge.remoteDocs, merge.localDocs, merge.i + 1))
                ELSE [merge EXCEPT !.pc = "error", !.i = 0, !.local = merge.localDocs]
  /\ MergeReport("push", ok, merge'.pc)

\* putRemoteDocument(localRow.doc) settled: the remote store holds the local
\* document and the loop runs on; or a throw
PutRemoteDocument(ok) ==
  /\ merge.pc = "push"
  /\ merge' = IF ok
                THEN Proceed([merge EXCEPT !.remote[merge.i] = merge.localDocs[merge.i]],
                             PushFrom(merge.remoteDocs, merge.localDocs, merge.i + 1))
                ELSE [merge EXCEPT !.pc = "error", !.i = 0]
  /\ MergeReport("push", ok, merge'.pc)

\* triggerSync is called again (a tick, or another startSync) after the pass
\* before it has ended
MergeAgain ==
  /\ merge.pc \in {"done", "error"}
  /\ merge.pass < MaxMergePasses
  /\ merge' = [NoMerge EXCEPT !.pc = "list", !.local = merge.local,
                              !.remote = merge.remote, !.pass = merge.pass + 1,
                              !.prev = merge.pc]
  /\ MergeReport("begin", TRUE, "list")

NextMerge ==
  \/ \E l \in Stores, r \in Stores : MergeBegin(l, r)
  \/ \E ok \in BOOLEAN : ListRemoteDocuments(ok)
  \/ \E ok \in BOOLEAN : AllDocs(ok)
  \/ \E ok \in BOOLEAN : LocalPut(ok)
  \/ \E ok \in BOOLEAN : PutRemoteDocument(ok)
  \/ MergeAgain

SpecMerge == InitMerge /\ [][NextMerge]_vars

\* ------------------------------------------------------- status snapshots

\* the updates the adapters pass to updateStatus, and the update of the
\* progress alone that the test subclass of BaseSyncAdapter passes
SnapshotPatches ==
  {Patch("connecting", NoNum, NoError), Patch("connected", NoNum, NoError),
   Patch("syncing", Num(0), NoError), Patch("paused", NoNum, NoError),
   CompletedPatch, Patch("error", NoNum, Err(MsgCollaborator)),
   Patch("idle", NoNum, NoError), Patch("undefined", Num(50), NoError)}

\* updateStatus(patch): this.status becomes a new object { ...old, ...patch },
\* whose error record is the old one unless the patch brings its own.  When
\* an event follows and a listener hears it, the listener is handed `status:
\* this.status`, the new object itself: the base class dispatches with a
\* syncing or error update, the WebDAV adapter's updateStatus dispatches
\* nothing and its triggerEvent follows every update but connecting
UpdateStatus(patch, heard) ==
  /\ patch \in SnapshotPatches
  /\ heard => IF kind = "webdav" THEN patch.status \notin {"connecting", "undefined"}
                                 ELSE patch.status \in {"syncing", "error"}
  /\ status' = MergeStatus(status, patch)
  /\ last' = Segment("updateStatus",
                     IF kind = "webdav" THEN << >> ELSE BaseUpdateEvents(status, patch),
                     "returned", NoPass)
  /\ snapshot' = IF heard
                   THEN [op |-> "event", value |-> MergeStatus(status, patch),
                         top |-> TRUE, err |-> MergeStatus(status, patch).error.def]
                   ELSE [snapshot EXCEPT !.op = "update", !.top = FALSE,
                                         !.err = snapshot.err /\ ~patch.error.def]
  /\ UNCHANGED << kind, config, localDB, remoteInfo, token, remoteDB, remotes,
                  syncHandler, handles, autoSyncTimer, timers, connects, passes,
                  connectedOk, sinceStop, stopEvents, happy, completes,
                  eventListeners, audit, estimate, merge, controller >>

\* getSyncStatus(): { ...this.status }, a new object with the same field
\* values, so its error is the very record this.status.error refers to
GetSyncStatus ==
  /\ snapshot' = [op |-> "get", value |-> status, top |-> FALSE, err |-> status.error.def]
  /\ UNCHANGED << adapterVars, eventListeners, audit, estimate, merge, controller >>

\* the holder of a status object assigns to one of its fields: to progress,
\* or to the message of its error record
Mutate(field) ==
  /\ snapshot.op # "none"
  /\ \/ /\ field = "progress"
        /\ snapshot' = [snapshot EXCEPT !.op = "mutate", !.value.progress = Num(1)]
        /\ status' = IF snapshot.top THEN [status EXCEPT !.progress = Num(1)] ELSE status
     \/ /\ field = "error.message"
        /\ snapshot.value.error.def
        /\ snapshot' = [snapshot EXCEPT !.op = "mutate", !.value.error.message = "tampered"]
        /\ status' = IF snapshot.top \/ snapshot.err
                       THEN [status EXCEPT !.error.message = "tampered"] ELSE status
  /\ UNCHANGED << kind, config, localDB, remoteInfo, token, remoteDB, remotes,
                  syncHandler, handles, autoSyncTimer, timers, connects, passes, last,
                  connectedOk, sinceStop, stopEvents, happy, completes,
                  eventListeners, audit, estimate, merge, controller >>

NextSnapshot ==
  \/ \E patch \in SnapshotPatches, heard \in BOOLEAN : UpdateStatus(patch, heard)
  \/ GetSyncStatus
  \/ \E field \in {"progress", "error.message"} : Mutate(field)

SpecSnapshot == Init /\ [][NextSnapshot]_vars

\* ------------------------------------------------------ GoogleDriveAdapter

\* GoogleDriveConfig: accessToken, fileId (kept in url) and autoSyncInterval;
\* connect examines none of them
GoogleDriveConfigs ==
  [set : {TRUE}, url : {"test-file-id"}, token : {"test-token", "invalid-token"},
   autoSync : {FALSE}, interval : Intervals]

\* connect(config) up to its await: status connecting, the config is stored,
\* the delay that stands for the token check is started
GConnectBegin(cfg) ==
  /\ kind = "googledrive"
  /\ Len(connects) < MaxConnecting
  /\ cfg \in GoogleDriveConfigs
  /\ status' = MergeStatus(status, Patch("connecting", NoNum, NoError))
  /\ config' = cfg
  /\ connects' = Append(connects, [stage |-> "verify", thrown |-> NoError, token |-> cfg.token])
  /\ last' = Segment("connect", << >>, "pending", NoPass)
  /\ UNCHANGED << kind, localDB, remoteInfo, token, remoteDB, remotes, syncHandler, handles,
                  autoSyncTimer, timers, passes, connectedOk, sinceStop, stopEvents, happy,
                  completes, eventListeners, audit, estimate, merge, snapshot, controller >>

\* the delay is over: status connected, then this.triggerEvent('connected').
\* Neither GoogleDriveAdapter nor BaseSyncAdapter defines triggerEvent, so
\* the call throws a TypeError; the catch block sets status error (the base
\* class's updateStatus dispatches sync-error) and calls this.triggerEvent
\* again, which throws out of the catch block: the promise rejects
GConnectEnd(i) ==
  /\ kind = "googledrive"
  /\ i \in DOMAIN connects
  /\ LET connected == MergeStatus(status, Patch("connected", NoNum, NoError))
         failure == Patch("error", NoNum, Err("this.triggerEvent is not a function"))
     IN /\ status' = MergeStatus(connected, failure)
        /\ last' = Segment("connectEnd", BaseUpdateEvents(connected, failure), "rejected",
                           NoPass)
  /\ connects' = RemoveAt(connects, i)
  /\ UNCHANGED << kind, config, localDB, remoteInfo, token, remoteDB, remotes, syncHandler,
                  handles, autoSyncTimer, timers, passes, connectedOk, sinceStop, stopEvents,
                  happy, completes, eventListeners, audit, estimate, merge, snapshot, controller >>

\* startSync up to the first await of triggerSync: without a config it
\* throws; else the stores are kept, status syncing/0 and the first delay of
\* the simulated progress is started
GStartSync ==
  /\ kind = "googledrive"
  /\ IF ~config.set
       THEN /\ last' = Segment("startSync", << >>, "precondition", NoPass)
            /\ UNCHANGED << status, localDB, remoteDB, remotes, passes >>
       ELSE /\ BagCardinality(passes) < MaxInFlight
            /\ localDB' = TRUE
            /\ remoteDB' = 1
            /\ remotes' = {1}
            /\ status' = MergeStatus(status, Patch("syncing", Num(0), NoError))
            /\ passes' = passes (+) SetToBag({NewPass("start", "sync")})
            /\ last' = Segment("startSync",
                               BaseUpdateEvents(status, Patch("syncing", Num(0), NoError)),
                               "pending", NoPass)
  /\ UNCHANGED << kind, config, remoteInfo, token, syncHandler, handles, autoSyncTimer,
                  timers, connects, connectedOk, sinceStop, stopEvents, happy, completes,
                  eventListeners, audit, estimate, merge, snapshot, controller >>

\* the first delay of triggerSync is over: updateProgress(0) sets status
\* syncing/0 and calls this.triggerEvent, which throws; the catch block sets
\* status error and calls this.triggerEvent again: triggerSync rejects, and
\* with it startSync, before the interval timer is set
GPassStep(p) ==
  /\ kind = "googledrive"
  /\ BagIn(p, passes)
  /\ LET progress == Patch("syncing", Num(0), NoError)
         failure == Patch("error", NoNum, Err("this.triggerEvent is not a function"))
     IN /\ status' = MergeStatus(MergeStatus(status, progress), failure)
        /\ last' = Segment("passEnd",
                           BaseUpdateEvents(status, progress)
                             \o BaseUpdateEvents(MergeStatus(status, progress), failure),
                           "rejected", p)
  /\ passes' = passes (-) SetToBag({p})
  /\ UNCHANGED << kind, config, localDB, remoteInfo, token, remoteDB, remotes, syncHandler,
                  handles, autoSyncTimer, timers, connects, connectedOk, sinceStop,
                  stopEvents, happy, completes, eventListeners, audit, estimate, merge,
                  snapshot, controller >>

\* stopSync: no timer is ever held; status idle, then this.triggerEvent
\* throws out of stopSync
GStopSync ==
  /\ kind = "googledrive"
  /\ status' = MergeStatus(status, Patch("idle", NoNum, NoError))
  /\ last' = Segment("stopSync", << >>, "threw", NoPass)
  /\ UNCHANGED << kind, config, localDB, remoteInfo, token, remoteDB, remotes, syncHandler,
                  handles, autoSyncTimer, timers, connects, passes, connectedOk, sinceStop,
                  stopEvents, happy, completes, eventListeners, audit, estimate, merge,
                  snapshot, controller >>

NextGoogleDrive ==
  \/ \E cfg \in GoogleDriveConfigs : GConnectBegin(cfg)
  \/ \E i \in DOMAIN connects : GConnectEnd(i)
  \/ GStartSync
  \/ \E p \in Passes : GPassStep(p)
  \/ GStopSync

SpecGoogleDrive == InitOf("googledrive") /\ [][NextGoogleDrive]_vars

\* ----------------------------------------------------------- SyncController

\* selectAdapter(adapter), which initialize and a click on the list call:
\* removeAdapterEventListeners on the current adapter, when there is one,
\* passes this.handleAdapterEvent.bind(this) to removeEventListener, a
\* function made by that very call, and the adapter deletes that function
\* from its Set; addAdapterEventListeners binds again and adds the new
\* function; the display takes adapter.getSyncStatus().  One bound function
\* stands for the nine a call binds, one per event name
SelectAdapter(adapter) ==
  /\ adapter \in Adapters
  /\ controller.binds + 2 <= MaxBinds
  /\ LET removing == controller.current # "none"
         bound == IF removing THEN controller.binds + 1 ELSE controller.binds
         removed == IF removing
                      THEN [controller.listeners EXCEPT ![controller.current] = @ \ {bound}]
                      ELSE controller.listeners
     IN controller' = [controller EXCEPT
                         !.op = "select", !.current = adapter, !.binds = bound + 1,
                         !.listeners = [removed EXCEPT ![adapter] = @ \cup {bound + 1}],
                         !.shown = controller.statuses[adapter],
                         !.from = "none", !.handled = 0]
  /\ UNCHANGED << adapterVars, eventListeners, audit, estimate, merge, snapshot >>

\* an adapter updates its status and dispatches an event that carries it:
\* every function in its Set runs handleAdapterEvent once, which displays
\* the status and dispatches a CustomEvent from the controller
AdapterEvent(adapter, st) ==
  /\ adapter \in Adapters
  /\ st \in {"syncing", "completed", "error"}
  /\ controller' = [controller EXCEPT
                      !.op = "event", !.statuses[adapter] = st, !.from = adapter,
                      !.handled = Cardinality(controller.listeners[adapter]),
                      !.shown = IF controller.listeners[adapter] = {} THEN @ ELSE st]
  /\ UNCHANGED << adapterVars, eventListeners, audit, estimate, merge, snapshot >>

NextController ==
  \/ \E adapter \in Adapters : SelectAdapter(adapter)
  \/ \E adapter \in Adapters, st \in {"syncing", "completed", "error"} :
       AdapterEvent(adapter, st)

SpecController == Init /\ [][NextController]_vars

\* --------------------------------------------------------- specification

Next ==
  \/ \E cfg \in WebDAVConfigs \cup RemoteStorageConfigs : ConnectBegin(cfg)
  \/ \E i \in 1..MaxConnecting + 1 : WConnectEnd(i)
  \/ \E i \in 1..MaxConnecting + 1, found \in BOOLEAN : RConnectDiscovered(i, found)
  \/ \E i \in 1..MaxConnecting + 1, outcome \in TestOutcomes : RConnectTested(i, outcome)
  \/ WStartSync
  \/ RStartSync
  \/ \E p \in Passes : RPassListed(p)
  \/ \E p \in Passes : RPassEnumerated(p)
  \/ \E p \in Passes : RPassComplete(p)
  \/ \E p \in Passes, msg \in PassFailures("list") \cup PassFailures("write") : RPassFail(p, msg)
  \/ \E t \in 1..MaxTimers : RTick(t)
  \/ \E t \in 1..MaxTimers : WTick(t)
  \/ \E p \in Passes : WPassComplete(p)
  \/ \E p \in Passes, msg \in {MsgCollaborator, MsgSyncDefault} : WPassFail(p, msg)
  \/ \E h \in 1..MaxHandles, info \in Reports : HandleChange(h, info)
  \/ \E h \in 1..MaxHandles : HandlePaused(h)
  \/ \E h \in 1..MaxHandles : HandleActive(h)
  \/ \E h \in 1..MaxHandles : HandleDenied(h)
  \/ \E h \in 1..MaxHandles : HandleComplete(h)
  \/ \E h \in 1..MaxHandles : HandleError(h)
  \/ WStopSync
  \/ RStopSync

Spec == Init /\ [][Next]_vars

\* the adapter with a config that connects and has a positive interval, and
\* with up to MaxOverlap passes in flight
OverlapConfigs ==
  {cfg \in WebDAVConfigs \cup RemoteStorageConfigs :
     /\ cfg.url \in {GoodUrl, "user@example.com"}
     /\ cfg.token = (IF cfg.url = GoodUrl THEN "" ELSE "tok")
     /\ (cfg.url = GoodUrl => cfg.autoSync)
     /\ cfg.interval = Num(SomeInterval)}

NextOverlap ==
  \/ \E cfg \in OverlapConfigs : ConnectBegin(cfg)
  \/ \E i \in 1..MaxConnecting + 1 : WConnectEnd(i)
  \/ \E i \in 1..MaxConnecting + 1, found \in BOOLEAN : RConnectDiscovered(i, found)
  \/ \E i \in 1..MaxConnecting + 1, outcome \in TestOutcomes : RConnectTested(i, outcome)
  \/ WStartSync
  \/ RStartSyncUpTo(MaxOverlap)
  \/ \E p \in Passes : RPassListed(p)
  \/ \E p \in Passes : RPassEnumerated(p)
  \/ \E p \in Passes : RPassComplete(p)
  \/ \E p \in Passes, msg \in PassFailures("list") \cup PassFailures("write") : RPassFail(p, msg)
  \/ \E t \in 1..MaxTimers : RTickUpTo(t, MaxOverlap)
  \/ \E t \in 1..MaxTimers : WTickUpTo(t, MaxOverlap)
  \/ \E p \in Passes : WPassComplete(p)
  \/ \E p \in Passes, msg \in {MsgCollaborator, MsgSyncDefault} : WPassFail(p, msg)
  \/ \E h \in 1..MaxHandles, info \in Reports : HandleChange(h, info)
  \/ \E h \in 1..MaxHandles : HandlePaused(h)
  \/ \E h \in 1..MaxHandles : HandleActive(h)
  \/ \E h \in 1..MaxHandles : HandleDenied(h)
  \/ \E h \in 1..MaxHandles : HandleComplete(h)
  \/ \E h \in 1..MaxHandles : HandleError(h)
  \/ WStopSync
  \/ RStopSync

SpecOverlap == Init /\ [][NextOverlap]_vars

\* ------------------------------------------------------------------ claims

\* C1: a startSync call made while no connect call has resolved true and
\* none is in flight (connect was never called, or every call so far
\* resolved false) fails with the precondition error, and no pass,
\* replication handle or timer exists afterwards.
C1_StartSyncNeedsConnect ==
  (last.op = "startSync" /\ ~last.preConnected /\ connects = << >>)
    => /\ last.result = "precondition"
       /\ passes = EmptyBag
       /\ handles = {}
       /\ timers = {}

\* C2: on an adapter whose connect resolved true, a timer tick that comes
\* after stopSync returned, with no startSync call in between, starts no
\* sync pass.
C2_NoPassAfterStop ==
  ~(/\ last.op = "tick"
    /\ last.preConnected
    /\ last.afterStop # "none"
    /\ last.result = "started")

\* C3: on an adapter whose connect resolved true, when stopSync ran while
\* the pass of a startSync call was in flight and nothing else ran until
\* that pass ended, the status is idle when the pass ends, and that stopSync
\* dispatched exactly one sync-stopped event.
C3_StoppedPassStaysIdle ==
  (/\ last.op = "passEnd"
   /\ last.preConnected
   /\ last.pass.origin = "start"
   /\ last.afterStop = "quiet")
    => (status.status = "idle" /\ stopEvents = 1)

\* C4: a stopSync call made while the status is idle dispatches no
\* sync-stopped event.
C4_StopWhileIdleIsSilent ==
  (last.op = "stopSync" /\ last.pre.status = "idle")
    => CountType(last.events, "sync-stopped") = 0

\* C5: stopSync can be called in every reachable state, and every stopSync
\* call returns without throwing, leaves the status idle, has cleared the
\* timer, cancelled the replication handle and closed the remote handle the
\* adapter held, and leaves the adapter holding none of the three.
C5_StopSyncAlwaysSafe ==
  [][/\ ENABLED (WStopSync \/ RStopSync)
     /\ (WStopSync \/ RStopSync)
          => /\ last'.op = "stopSync" /\ last'.result = "returned"
             /\ status'.status = "idle"
             /\ autoSyncTimer' = 0 /\ autoSyncTimer \notin timers'
             /\ syncHandler' = 0 /\ syncHandler \notin handles'
             /\ remoteDB' = 0 /\ remoteDB \notin remotes']_vars

\* C5 witness: stopSync has run on an adapter that was syncing.
C5_Witness ==
  last.op = "stopSync" /\ last.pre.status = "syncing" /\ status.status = "idle"

C7_ErrorOnlyInError == status.error.def => status.status = "error"

\* C8: the status carries a progress only while its status field is syncing
\* or completed.
C8_ProgressOnlyWhileSyncing ==
  status.progress.def => status.status \in {"syncing", "completed"}

\* C9: a startSync call that fails with the precondition error leaves the
\* status as it was before the call and dispatches no event.
C9_PreconditionChangesNothing ==
  (last.op = "startSync" /\ last.result = "precondition")
    => (status = last.pre /\ last.events = << >>)

\* a step of the pass that the happy path's startSync started, with the
\* stores cooperating
HappyStep ==
  \/ \E p \in Passes : RPassListed(p) \/ RPassEnumerated(p) \/ RPassComplete(p)
  \/ HandleComplete(syncHandler)

\* C10: on the happy path (a fresh adapter, one connect that resolved true
\* with a config without interval, one startSync, stores that cooperate, no
\* other call) the pass can always take its next step until it has
\* completed, and once it has, the status is completed with progress 100
\* and exactly one sync-complete event was dispatched; whenever a
\* sync-complete listener runs, getSyncStatus() returns completed/100.
C10_HappyPathCompletes ==
  /\ happy = "running"
       => \/ completes = 0 /\ status.status # "completed" /\ ENABLED HappyStep
          \/ completes = 1 /\ status.status = "completed" /\ status.progress = Num(100)
  /\ \A i \in DOMAIN last.events :
       last.events[i].type = "sync-complete"
         => (last.events[i].seen.status = "completed"
             /\ last.events[i].seen.progress = Num(100))

\* C10 witness: the happy path's pass has completed.
C10_Witness ==
  /\ happy = "running"
  /\ completes = 1
  /\ status.status = "completed"
  /\ CountType(last.events, "sync-complete") = 1

\* C11: on an adapter whose connect resolved true, when the promise
\* returned by startSync settles after a pass was started (WebDAV: the call
\* returns; RemoteStorage: the pass it awaited has ended), the status is
\* completed or error.
C11_AwaitSeesTerminalStatus ==
  (/\ last.preConnected
   /\ \/ last.op = "startSync" /\ last.result = "resolved"
      \/ last.op = "passEnd" /\ last.pass.origin = "start")
    => status.status \in {"completed", "error"}

\* C12: on an adapter whose connect resolved true and whose status carries
\* no error, at most one interval timer is armed at any time.
C12_AtMostOneTimer ==
  (connectedOk /\ ~status.error.def) => Cardinality(timers) <= 1

\* C13: on an adapter whose connect resolved true, a startSync call that
\* settles while the config's interval is absent, zero or negative arms no
\* timer: when no timer was armed before the step that settles it, none is
\* armed after.
C13_TimerNeedsPositiveInterval ==
  [][(/\ \/ last'.op = "startSync" /\ last'.result = "resolved"
         \/ last'.op = "passEnd" /\ last'.pass.origin = "start"
      /\ connectedOk
      /\ ~Positive(config.interval)
      /\ timers = {})
       => timers' = {}]_vars

\* C14: on an adapter whose connect resolved true, when the pass a startSync
\* call awaits ends with status error, that startSync arms no timer: when
\* no timer was armed before the pass ended, none is armed after.
C14_FailedStartArmsNoTimer ==
  [][(/\ last'.op = "passEnd" /\ last'.pass.origin = "start"
      /\ status'.status = "error"
      /\ connectedOk
      /\ timers = {})
       => timers' = {}]_vars

\* a timer tick that starts a pass
TickStartsPass ==
  \E t \in 1..MaxTimers : RTick(t) \/ (WTick(t) /\ last'.result = "started")

\* C15: a timer-triggered pass that fails ends with status error, a
\* non-empty error message and a sync-error event, and leaves every armed
\* timer armed; as long as a timer is armed after such a failure a tick can
\* start a pass; and only a stopSync call disarms a timer.
C15_FailedTickKeepsTimer ==
  [][/\ (last'.op = "passEnd" /\ last'.pass.origin = "timer" /\ status'.status = "error")
          => /\ status'.error.def /\ status'.error.message # ""
             /\ CountType(last'.events, "sync-error") >= 1
             /\ timers' = timers
     /\ (/\ last.op = "passEnd" /\ last.pass.origin = "timer" /\ status.status = "error"
         /\ timers # {})
          => ENABLED TickStartsPass
     /\ ~(timers \subseteq timers') => last'.op = "stopSync"]_vars

\* C15 witness: a timer-triggered pass has failed and a timer is still armed.
C15_Witness ==
  /\ last.op = "passEnd" /\ last.pass.origin = "timer"
  /\ status.status = "error"
  /\ timers # {}

C17_ListenerIsolation ==
  [][audit'.op = "dispatch"
       => /\ ~audit'.threw
          /\ \A l \in Range(eventListeners[audit'.event].set) :
               Cardinality({i \in DOMAIN audit'.invoked : audit'.invoked[i] = l}) = 1
          /\ audit'.logged
               = Cardinality({l \in Range(eventListeners[audit'.event].set) : Throws(l)})
          /\ status' = status
          /\ eventListeners' = eventListeners
          /\ UNCHANGED adapterVars]_vars

\* C17 witness: a dispatch has invoked a listener that throws and then
\* another listener.
C17_Witness ==
  /\ audit.op = "dispatch"
  /\ \E i, j \in DOMAIN audit.invoked :
       i < j /\ Throws(audit.invoked[i]) /\ ~Throws(audit.invoked[j])

\* C18: after every sequence of addEventListener / removeEventListener
\* calls, a dispatch invokes exactly the listeners whose registration for
\* the event is current, each once, in the order in which those
\* registrations began, and has invoked them all when it returns.
C18_DispatchInRegistrationOrder ==
  audit.op = "dispatch"
    => /\ Range(audit.invoked) = {l \in Listeners : audit.stamp[audit.event][l] > 0}
       /\ \A i, j \in DOMAIN audit.invoked :
            i < j => audit.stamp[audit.event][audit.invoked[i]]
                       < audit.stamp[audit.event][audit.invoked[j]]

\* C18 witness: a dispatch has invoked three listeners, l2 first, after
\* MaxRegistrations registrations began.
C18_Witness ==
  /\ audit.op = "dispatch"
  /\ Len(audit.invoked) = 3
  /\ audit.clock = MaxRegistrations
  /\ audit.invoked[1] = "l2"

\* C19: a removeEventListener(event, listener) call takes the listener out
\* of the listeners of that event and leaves the other listeners of the
\* event, in their order, and the listeners of every other event as they
\* were; when the listener was not registered for the event nothing
\* changes; and a dispatch invokes no listener that was removed and not
\* added again.
C19_RemoveOnlyThatListener ==
  [][/\ audit'.op = "remove"
          => /\ audit'.listener \notin Range(eventListeners'[audit'.event].set)
             /\ \A l \in Listeners \ {audit'.listener} :
                  l \in Range(eventListeners'[audit'.event].set)
                    <=> l \in Range(eventListeners[audit'.event].set)
             /\ \A l1, l2 \in Range(eventListeners'[audit'.event].set) :
                  audit.stamp[audit'.event][l1] < audit.stamp[audit'.event][l2]
                    <=> \E i, j \in DOMAIN eventListeners'[audit'.event].set :
                          /\ i < j
                          /\ eventListeners'[audit'.event].set[i] = l1
                          /\ eventListeners'[audit'.event].set[j] = l2
             /\ \A e \in EventNames \ {audit'.event} :
                  eventListeners'[e].set = eventListeners[e].set
             /\ audit'.listener \notin Range(eventListeners[audit'.event].set)
                  => \A e \in EventNames : eventListeners'[e].set = eventListeners[e].set
     /\ audit'.op = "dispatch"
          => \A l \in Listeners :
               << audit'.event, l >> \in audit.gone => l \notin Range(audit'.invoked)]_vars

\* C19 witness: a dispatch of an event from which a listener was removed
\* has invoked another listener, while the removed listener is still
\* registered for another event.
C19_Witness ==
  /\ audit.op = "dispatch"
  /\ audit.invoked # << >>
  /\ \E l \in Listeners, e \in EventNames :
       /\ << audit.event, l >> \in audit.gone
       /\ e # audit.event
       /\ l \in Range(eventListeners[e].set)

C21_TestReportGivesHalf ==
  (estimate.pc = "done" /\ estimate.info = TestReport)
    => estimate.progress = Num(50)

\* C22: progress 100 occurs only together with status completed: while the
\* status is syncing or paused the progress is at most 99, also after a
\* paused or active event that follows a complete event.  Stated for an
\* adapter whose connect has succeeded and is not running.
C22_HundredOnlyWhenCompleted ==
  (/\ connectedOk /\ connects = << >>
   /\ status.status \in {"syncing", "paused"}
   /\ status.progress.def /\ ~status.progress.nan)
    => status.progress.v <= 99

\* C23: a progress that is defined is an integer in 0..100, whatever change
\* reports the replication handle delivered.  Stated for an adapter whose
\* connect has succeeded and is not running.
C23_ProgressInRange ==
  (connectedOk /\ connects = << >> /\ status.progress.def)
    => (~status.progress.nan /\ status.progress.v \in 0..100)

\* C24: an identifier that both listings of a pass hold with equal revision
\* markers is written to neither store in that pass; when every identifier
\* the listings hold is of that kind, the pass writes nothing at all.
C24_EqualMarkersNoWrite ==
  LET same(id) == /\ merge.remoteDocs[id].has /\ merge.localDocs[id].has
                  /\ merge.remoteDocs[id].rev.def
                  /\ merge.remoteDocs[id].rev = merge.localDocs[id].rev
      listed(id) == merge.remoteDocs[id].has \/ merge.localDocs[id].has
  IN /\ \A id \in DocIds :
          same(id) => id \notin Range(merge.putLocal) \cup Range(merge.putRemote)
     /\ (\A id \in DocIds : listed(id) => same(id))
          => (merge.putLocal = << >> /\ merge.putRemote = << >>)

\* C24 witness: a pass completed over stores that hold identifier 1 with
\* marker "2" on both sides; it wrote identifier 2 and not identifier 1.
C24_Witness ==
  /\ merge.pc = "done"
  /\ merge.remoteDocs[1] = Doc(Rev(<< 2 >>))
  /\ merge.localDocs[1] = Doc(Rev(<< 2 >>))
  /\ merge.putLocal \o merge.putRemote = << 2 >>

\* C25: in a completed pass a remote document was put into the local store
\* exactly when the local listing holds no document under its identifier, or
\* holds one without marker, or the remote marker is lexicographically
\* greater than the local one; and in no pass is an identifier that was put
\* into the local store also sent to the remote store.  "Greater" is taken
\* by its definition: at the first position where the two strings differ the
\* remote one has the greater character or the local one has ended.
C25_RemoteWins ==
  LET r(id) == merge.remoteDocs[id]
      l(id) == merge.localDocs[id]
      lexGreater(a, b) ==
        \E k \in 1..Len(a) :
          /\ \A j \in 1..(k - 1) : j <= Len(b) /\ a[j] = b[j]
          /\ (k > Len(b) \/ a[k] > b[k])
      wins(id) == /\ r(id).has
                  /\ \/ ~l(id).has
                     \/ ~l(id).rev.def
                     \/ (r(id).rev.def /\ lexGreater(r(id).rev.v, l(id).rev.v))
  IN \A id \in DocIds :
       /\ id \in Range(merge.putLocal) => (wins(id) /\ id \notin Range(merge.putRemote))
       /\ (merge.pc = "done" /\ wins(id)) => id \in Range(merge.putLocal)

\* C25 witness: a pass completed in which the remote document with marker
\* "2" replaced the local one with marker "1" and nothing was sent to the
\* remote store under that identifier.
C25_Witness ==
  /\ merge.pc = "done"
  /\ merge.remoteDocs[1] = Doc(Rev(<< 2 >>))
  /\ merge.localDocs[1] = Doc(Rev(<< 1 >>))
  /\ 1 \in Range(merge.putLocal)
  /\ 1 \notin Range(merge.putRemote)
  /\ merge.local[1] = Doc(Rev(<< 2 >>))

\* C26: in a completed pass a local document was pushed to the remote store
\* exactly when the remote listing holds no document under its identifier or
\* the local marker is lexicographically greater than the remote one; and in
\* no pass is an identifier that was pushed also put into the local store.
C26_LocalWins ==
  LET r(id) == merge.remoteDocs[id]
      l(id) == merge.localDocs[id]
      lexGreater(a, b) ==
        \E k \in 1..Len(a) :
          /\ \A j \in 1..(k - 1) : j <= Len(b) /\ a[j] = b[j]
          /\ (k > Len(b) \/ a[k] > b[k])
      wins(id) == /\ l(id).has
                  /\ \/ ~r(id).has
                     \/ (/\ l(id).rev.def /\ r(id).rev.def
                         /\ lexGreater(l(id).rev.v, r(id).rev.v))
  IN \A id \in DocIds :
       /\ id \in Range(merge.putRemote) => (wins(id) /\ id \notin Range(merge.putLocal))
       /\ (merge.pc = "done" /\ wins(id)) => id \in Range(merge.putRemote)

\* C26 as the code has it: in a completed pass a local document was pushed
\* to the remote store exactly when it carries a marker and either the remote
\* listing holds no document under its identifier or the local marker is
\* lexicographically greater than the remote one; a local document without
\* marker is never pushed; and in no pass is an identifier that was pushed
\* also put into the local store.
C26_MarkedLocalWins ==
  LET r(id) == merge.remoteDocs[id]
      l(id) == merge.localDocs[id]
      lexGreater(a, b) ==
        \E k \in 1..Len(a) :
          /\ \A j \in 1..(k - 1) : j <= Len(b) /\ a[j] = b[j]
          /\ (k > Len(b) \/ a[k] > b[k])
      wins(id) == /\ l(id).has
                  /\ l(id).rev.def
                  /\ \/ ~r(id).has
                     \/ (r(id).rev.def /\ lexGreater(l(id).rev.v, r(id).rev.v))
  IN \A id \in DocIds :
       /\ id \in Range(merge.putRemote) => (wins(id) /\ id \notin Range(merge.putLocal))
       /\ (merge.pc = "done" /\ wins(id)) => id \in Range(merge.putRemote)

\* C26 witness: a pass completed in which the local document with marker "2"
\* was pushed over the remote one with marker "1", the local document without
\* marker that has no remote counterpart was not pushed, and nothing was put
\* into the local store.
C26_Witness ==
  /\ merge.pc = "done"
  /\ merge.localDocs[1] = Doc(Rev(<< 2 >>))
  /\ merge.remoteDocs[1] = Doc(Rev(<< 1 >>))
  /\ merge.localDocs[2] = Doc(NoRev)
  /\ merge.remoteDocs[2] = NoDoc
  /\ merge.putRemote = << 1 >>
  /\ merge.putLocal = << >>
  /\ merge.remote[1] = Doc(Rev(<< 2 >>))

\* C27: the step in which connect fails dispatches an event named
\* connection-error, and the error message that event carries is the message
\* getSyncStatus returns afterwards.
C27_ConnectionErrorEvent ==
  (last.op = "connectEnd" /\ last.result = "false")
    => \E i \in DOMAIN last.events :
         /\ last.events[i].type = "connection-error"
         /\ last.events[i].error.def
         /\ status.error.def
         /\ last.events[i].error.message = status.error.message

\* C28: every event the adapter dispatches carries a status field, the
\* adapter's status at the moment of the dispatch.
C28_EventsCarryStatus ==
  \A i \in DOMAIN last.events : last.events[i].carries

\* C29: a getSyncStatus call changes no state of the adapter, and an
\* assignment to a field of a status object received from getSyncStatus or
\* from an event, its nested error record included, leaves the adapter's
\* status as it was.
C29_SnapshotIndependent ==
  [][/\ snapshot'.op = "get" => UNCHANGED adapterVars
     /\ snapshot'.op = "mutate" => status' = status]_vars

\* C30: when stopSync has returned the adapter holds no config, so that a
\* startSync call that follows it without a connect in between fails with
\* the precondition error.  Stated for an adapter whose connect has succeeded
\* and is not running.
C30_StopDiscardsConfig ==
  (last.op = "stopSync" /\ connectedOk /\ connects = << >>) => ~config.set

\* C31: when a connect call that follows an earlier successful connect has
\* resolved true, with nothing else run since it was called, no auto-sync
\* timer is armed and no replication handle is live: those of the previous
\* session were stopped by the reconnect.
C31_ReconnectReplacesSession ==
  [][(/\ last.op = "connect" /\ last.preConnected
      /\ last'.op = "connectEnd" /\ last'.result = "true")
       => (timers' = {} /\ handles' = {} /\ config'.set)]_vars

\* C32: the adapter stays usable in every reachable state, a state with
\* status error or completed included.  Whenever no connect is running,
\* connect can be called with a valid config; a connect running with a valid
\* config can take its next step when the backend cooperates, and its last
\* step resolves true with status connected; a startSync called right after
\* that passes the precondition; every pass in flight and every live
\* replication handle can take its next step towards completion, and the
\* step that completes a pass leaves status completed.
C32_Reusable ==
  [][LET valid == IF kind = "webdav"
                    THEN [set |-> TRUE, url |-> GoodUrl, token |-> "", autoSync |-> FALSE,
                          interval |-> Num(SomeInterval)]
                    ELSE [set |-> TRUE, url |-> "user@example.com", token |-> "tok",
                          autoSync |-> FALSE, interval |-> NoNum]
     IN /\ connects = << >> => ENABLED ConnectBegin(valid)
        /\ (last.op = "connect" /\ config = valid)
             => IF kind = "webdav"
                  THEN ENABLED (/\ WConnectEnd(Len(connects))
                                /\ last'.result = "true" /\ status'.status = "connected")
                  ELSE ENABLED (/\ RConnectDiscovered(Len(connects), TRUE)
                                /\ last'.op = "connectStep")
        /\ \A i \in DOMAIN connects :
             connects[i].stage = "test"
               => ENABLED (/\ RConnectTested(i, "ok")
                           /\ last'.result = "true" /\ status'.status = "connected")
        /\ (last.op = "connectEnd" /\ last.result = "true" /\ last'.op = "startSync")
             => last'.result # "precondition"
        /\ \A p \in BagToSet(passes) :
             kind = "remotestorage"
               => ENABLED (RPassListed(p) \/ RPassEnumerated(p) \/ RPassComplete(p))
        /\ \A h \in handles : ENABLED HandleComplete(h)
        /\ (\E i \in DOMAIN last'.events : last'.events[i].type = "sync-complete")
             => status'.status = "completed"]_vars

\* C32 witness: on an adapter that went through an error, a later pass has
\* just completed.
C32_Witness ==
  /\ status.error.def
  /\ connectedOk
  /\ status.status = "completed"
  /\ \E i \in DOMAIN last.events : last.events[i].type = "sync-complete"

\* C33: the promise GoogleDriveAdapter.connect returns resolves, true or
\* false, for every config; for a valid config (any access token and file
\* id: connect examines neither) it resolves true with status connected after
\* dispatching the connected event.
C33_GoogleDriveConnects ==
  (kind = "googledrive" /\ last.op = "connectEnd")
    => /\ last.result = "true"
       /\ status.status = "connected"
       /\ \E i \in DOMAIN last.events : last.events[i].type = "connected"

\* C34: WebDAV stopSync cancels every replication handle and closes every
\* remote database handle that an earlier startSync created: right after
\* stopSync no handle is left that can still deliver callbacks, and no
\* remote database is left open, however many times startSync ran before
\* (stated for an adapter whose connect has succeeded and is not running).
C34_StopCancelsEveryHandle ==
  (kind = "webdav" /\ connectedOk /\ connects = << >> /\ last.op = "stopSync")
    => (handles = {} /\ remotes = {})

\* C35: markers are compared as strings: when the listings of a pass hold an
\* identifier with remote marker "10" and local marker "9", the local side
\* counts as newer; the pass never puts the remote document into the local
\* store, and once it has completed it has sent the local document to the
\* remote store, which then holds marker "9", as the local store still does.
C35_StringOrder ==
  \A id \in DocIds :
    (/\ merge.remoteDocs[id] = Doc(Rev(<< 1, 0 >>))
     /\ merge.localDocs[id] = Doc(Rev(<< 9 >>)))
      => /\ id \notin Range(merge.putLocal)
         /\ merge.local[id] = Doc(Rev(<< 9 >>))
         /\ merge.pc = "done"
              => (id \in Range(merge.putRemote) /\ merge.remote[id] = Doc(Rev(<< 9 >>)))

\* C35 witness: a pass completed over remote marker "10" and local marker
\* "9" under identifier 1, having sent identifier 1 to the remote store.
C35_Witness ==
  /\ merge.pc = "done"
  /\ merge.remoteDocs[1] = Doc(Rev(<< 1, 0 >>))
  /\ merge.localDocs[1] = Doc(Rev(<< 9 >>))
  /\ 1 \in Range(merge.putRemote)
  /\ merge.remote[1] = Doc(Rev(<< 9 >>))

\* C36: a pass that completes over stores in which every document carries a
\* marker leaves each identifier that either side held present on both sides
\* with equal markers, and the pass that follows it at once writes nothing to
\* either store.
C36_Converges ==
  LET marked(store) == \A id \in DocIds : store[id].has => store[id].rev.def
  IN (merge.pc = "done" /\ marked(merge.remoteDocs) /\ marked(merge.localDocs))
       => /\ \A id \in DocIds :
               (merge.remoteDocs[id].has \/ merge.localDocs[id].has)
                 => /\ merge.local[id].has
                    /\ merge.remote[id].has
                    /\ merge.local[id].rev = merge.remote[id].rev
          /\ merge.prev = "done" => (merge.putLocal = << >> /\ merge.putRemote = << >>)

\* C36 witness: a second pass completed right after a first one that
\* completed; both stores hold markers "10" and "9" under the two
\* identifiers and the second pass wrote nothing.
C36_Witness ==
  /\ merge.pc = "done"
  /\ merge.prev = "done"
  /\ merge.pass = 2
  /\ merge.local = merge.remote
  /\ merge.local[1] = Doc(Rev(<< 1, 0 >>))
  /\ merge.local[2] = Doc(Rev(<< 9 >>))
  /\ merge.putLocal = << >>
  /\ merge.putRemote = << >>

\* C37: when an await of a RemoteStorage pass has failed (the remote
\* listing, the local enumeration, a local put or a remote put), the failure
\* is kept in the status and not thrown: the pass has ended with status error
\* and a non-empty message, triggerSync and with it startSync resolved, and
\* every put of the pass that had succeeded before is still in its store:
\* the local store holds the remote document, the remote store the local one.
C37_FailureCaptured ==
  LET Front(s) == SubSeq(s, 1, Len(s) - 1)
      pulled == IF merge.putRemote = << >> THEN Front(merge.putLocal) ELSE merge.putLocal
      pushed == Front(merge.putRemote)
  IN merge.pc = "error"
       => /\ status.status = "error"
          /\ status.error.def
          /\ status.error.message # ""
          /\ last.op = "passEnd"
          /\ last.result = "resolved"
          /\ \A i \in DOMAIN pulled : merge.local[pulled[i]] = merge.remoteDocs[pulled[i]]
          /\ \A i \in DOMAIN pushed : merge.remote[pushed[i]] = merge.localDocs[pushed[i]]

\* C37 witness: a pass failed at its put of identifier 2 to the remote store
\* after it had put the remote document of identifier 1 into the local store,
\* which still holds it.
C37_Witness ==
  /\ merge.pc = "error"
  /\ status.status = "error"
  /\ merge.putLocal = << 1 >>
  /\ merge.putRemote = << 2 >>
  /\ merge.local[1] = merge.remoteDocs[1]
  /\ merge.local[1] # merge.localDocs[1]
  /\ merge.remote[2] # merge.localDocs[2]

\* C38: a failure of the RemoteStorage adapter is reported once, through its
\* own event: the segment in which a pass fails dispatches sync-error exactly
\* once, and the segment in which connect fails dispatches connection-error
\* exactly once and sync-error not at all.  (Each dispatch invokes every
\* listener of the event once.)
C38_ReportedOnce ==
  kind = "remotestorage"
    => /\ (last.op = "passEnd" /\ status.status = "error"
           /\ CountType(last.events, "sync-complete") = 0)
            => CountType(last.events, "sync-error") = 1
       /\ (last.op = "connectEnd" /\ last.result = "false")
            => /\ CountType(last.events, "connection-error") = 1
               /\ CountType(last.events, "sync-error") = 0

\* C39: an updateStatus call of BaseSyncAdapter leaves as status the old one
\* overwritten by the fields the update brings, and dispatches: one
\* sync-progress event carrying that status when the update's status is
\* syncing; one sync-error event carrying that status and the update's error
\* when it is error; nothing for any other update, an update of the progress
\* alone included.
C39_UpdateStatusEvents ==
  [][\A patch \in SnapshotPatches, heard \in BOOLEAN :
       (kind = "remotestorage" /\ UpdateStatus(patch, heard))
         => LET merged == [status |-> IF patch.status = "undefined" THEN status.status
                                      ELSE patch.status,
                           progress |-> IF patch.progress.def THEN patch.progress
                                        ELSE status.progress,
                           error |-> IF patch.error.def THEN patch.error ELSE status.error]
                payload(type) == [type |-> type, carries |-> TRUE, error |-> patch.error,
                                  seen |-> merged]
            IN /\ status' = merged
               /\ last'.events = IF patch.status = "syncing" THEN << payload("sync-progress") >>
                                 ELSE IF patch.status = "error" THEN << payload("sync-error") >>
                                 ELSE << >>]_vars

\* C39 witness: an update of the progress alone has just been applied to a
\* status that an error update had made before: nothing was dispatched, and
\* the status is still error, with the error's message and the new progress.
C39_Witness ==
  /\ kind = "remotestorage"
  /\ last.op = "updateStatus"
  /\ last.events = << >>
  /\ status = [status |-> "error", progress |-> Num(50), error |-> Err(MsgCollaborator)]

\* C40: the controller handles an adapter's event exactly once when the
\* adapter is the one selected, and not at all otherwise: an adapter it has
\* switched away from no longer changes the display nor has its events
\* dispatched again by the controller.
C40_OnlyCurrentAdapterHeard ==
  controller.op = "event"
    => controller.handled = IF controller.from = controller.current THEN 1 ELSE 0

====
